---- MODULE Spec2Model ----
(***************************************************************************)
(* Masterclass analysis pipeline: the attendance, chat and lead loaders,   *)
(* the matcher, the scorer and the exit-timeline analyzer of               *)
(* masterclass_analyzer.py and dashboard.py, and the drivers that call     *)
(* them (Analyze_cli.py, run.py, dashboard_api.py, dashboard.py).          *)
(*                                                                         *)
(* Text is a sequence of one-character strings, so that strip, lower,      *)
(* substring and suffix tests are computed and not assumed.  A DataFrame   *)
(* is a record of column names and rows (tuples of cells).                 *)
(***************************************************************************)
EXTENDS Integers, Sequences, FiniteSets, TLC

----------------------------------------------------------------------------
(* Text *)

\* Python compares str by code point
Ord ==
    " " :> 32 @@ "(" :> 40 @@ ")" :> 41 @@ "-" :> 45 @@ "." :> 46 @@ "/" :> 47 @@ "0" :> 48 @@ "1" :> 49 @@
    "2" :> 50 @@ "3" :> 51 @@ "4" :> 52 @@ "5" :> 53 @@ "6" :> 54 @@ "7" :> 55 @@ "8" :> 56 @@ "9" :> 57 @@
    ":" :> 58 @@ "?" :> 63 @@ "@" :> 64 @@ "_" :> 95 @@ "A" :> 65 @@ "B" :> 66 @@ "C" :> 67 @@ "D" :> 68 @@
    "E" :> 69 @@ "F" :> 70 @@ "G" :> 71 @@ "H" :> 72 @@ "I" :> 73 @@ "J" :> 74 @@ "K" :> 75 @@ "L" :> 76 @@
    "M" :> 77 @@ "N" :> 78 @@ "O" :> 79 @@ "P" :> 80 @@ "Q" :> 81 @@ "R" :> 82 @@ "S" :> 83 @@ "T" :> 84 @@
    "U" :> 85 @@ "V" :> 86 @@ "W" :> 87 @@ "X" :> 88 @@ "Y" :> 89 @@ "Z" :> 90 @@ "a" :> 97 @@ "b" :> 98 @@
    "c" :> 99 @@ "d" :> 100 @@ "e" :> 101 @@ "f" :> 102 @@ "g" :> 103 @@ "h" :> 104 @@ "i" :> 105 @@ "j" :> 106 @@
    "k" :> 107 @@ "l" :> 108 @@ "m" :> 109 @@ "n" :> 110 @@ "o" :> 111 @@ "p" :> 112 @@ "q" :> 113 @@ "r" :> 114 @@
    "s" :> 115 @@ "t" :> 116 @@ "u" :> 117 @@ "v" :> 118 @@ "w" :> 119 @@ "x" :> 120 @@ "y" :> 121 @@ "z" :> 122

LowerOf ==
    "A" :> "a" @@ "B" :> "b" @@ "C" :> "c" @@ "D" :> "d" @@ "E" :> "e" @@ "F" :> "f" @@ "G" :> "g" @@
    "H" :> "h" @@ "I" :> "i" @@ "J" :> "j" @@ "K" :> "k" @@ "L" :> "l" @@ "M" :> "m" @@ "N" :> "n" @@
    "O" :> "o" @@ "P" :> "p" @@ "Q" :> "q" @@ "R" :> "r" @@ "S" :> "s" @@ "T" :> "t" @@ "U" :> "u" @@
    "V" :> "v" @@ "W" :> "w" @@ "X" :> "x" @@ "Y" :> "y" @@ "Z" :> "z"

DigitOf ==
    "0" :> 0 @@ "1" :> 1 @@ "2" :> 2 @@ "3" :> 3 @@ "4" :> 4 @@ "5" :> 5 @@ "6" :> 6 @@ "7" :> 7 @@ "8" :> 8 @@ "9" :> 9

\* a missing cell (pandas NaN); no text holds a three-character "character"
NaN == <<"NaN">>

IsSpace(c) == c \in {" ", "\t", "\n"}

LowerChar(c) == IF c \in DOMAIN LowerOf THEN LowerOf[c] ELSE c

\* str.lower(); NaN stays NaN under the pandas .str accessor
Lower(s) == [i \in 1..Len(s) |-> LowerChar(s[i])]

RECURSIVE LStrip(_)
LStrip(s) == IF s # <<>> /\ IsSpace(Head(s)) THEN LStrip(Tail(s)) ELSE s

RECURSIVE RStrip(_)
RStrip(s) ==
    IF s # <<>> /\ IsSpace(s[Len(s)]) THEN RStrip(SubSeq(s, 1, Len(s) - 1)) ELSE s

\* str.strip()
Strip(s) == LStrip(RStrip(s))

\* sub in s
Contains(s, sub) ==
    \E i \in 0..(Len(s) - Len(sub)) : SubSeq(s, i + 1, i + Len(sub)) = sub

\* s.endswith(suf)
EndsWith(s, suf) ==
    Len(s) >= Len(suf) /\ SubSeq(s, Len(s) - Len(suf) + 1, Len(s)) = suf

\* s.replace(a, b) for one-character a and b
ReplaceChar(s, a, b) == [i \in 1..Len(s) |-> IF s[i] = a THEN b ELSE s[i]]

\* s.replace(a, '') for a one-character a
RemoveChar(s, a) == SelectSeq(s, LAMBDA c : c # a)

\* s < t, as Python orders str
RECURSIVE LexLess(_, _)
LexLess(s, t) ==
    IF t = <<>> THEN FALSE
    ELSE IF s = <<>> THEN TRUE
    ELSE IF Ord[Head(s)] # Ord[Head(t)] THEN Ord[Head(s)] < Ord[Head(t)]
    ELSE LexLess(Tail(s), Tail(t))

IsDigit(c) == c \in DOMAIN DigitOf

\* the value of a run of decimal digits
RECURSIVE DigitsValue(_, _)
DigitsValue(s, acc) ==
    IF s = <<>> THEN acc ELSE DigitsValue(Tail(s), 10 * acc + DigitOf[Head(s)])

\* s.split(): the whitespace-separated tokens
RECURSIVE SplitWs(_, _, _)
SplitWs(s, cur, acc) ==
    IF s = <<>> THEN (IF cur = <<>> THEN acc ELSE Append(acc, cur))
    ELSE IF IsSpace(Head(s))
         THEN SplitWs(Tail(s), <<>>, IF cur = <<>> THEN acc ELSE Append(acc, cur))
         ELSE SplitWs(Tail(s), Append(cur, Head(s)), acc)

Min(a, b) == IF a <= b THEN a ELSE b

RECURSIVE SumSeq(_)
SumSeq(s) == IF s = <<>> THEN 0 ELSE Head(s) + SumSeq(Tail(s))

\* the indices of s that satisfy Test, ascending
RECURSIVE Indices(_, _, _)
Indices(s, Test(_), i) ==
    IF i > Len(s) THEN <<>>
    ELSE (IF Test(s[i]) THEN <<i>> ELSE <<>>) \o Indices(s, Test, i + 1)

\* insertion into a list kept ascending by LexLess, without duplicates
RECURSIVE InsertSorted(_, _)
InsertSorted(sorted, s) ==
    IF sorted = <<>> THEN <<s>>
    ELSE IF s = Head(sorted) THEN sorted
    ELSE IF LexLess(s, Head(sorted)) THEN <<s>> \o sorted
    ELSE <<Head(sorted)>> \o InsertSorted(Tail(sorted), s)

RECURSIVE SortedUnique(_)
SortedUnique(s) ==
    IF s = <<>> THEN <<>>
    ELSE InsertSorted(SortedUnique(SubSeq(s, 1, Len(s) - 1)), s[Len(s)])

----------------------------------------------------------------------------
(* DataFrame *)

\* Python None for a table attribute
None == [none |-> TRUE, cols |-> <<>>, rows |-> <<>>]

DataFrame(cols, rows) == [none |-> FALSE, cols |-> cols, rows |-> rows]

\* c in df.columns
HasCol(df, c) == \E i \in 1..Len(df.cols) : df.cols[i] = c

ColIdx(df, c) ==
    CHOOSE i \in 1..Len(df.cols) :
        df.cols[i] = c /\ \A j \in 1..(i - 1) : df.cols[j] # c

\* df[c]
Column(df, c) == [r \in 1..Len(df.rows) |-> df.rows[r][ColIdx(df, c)]]

\* row.get(c, default)
RowGet(df, row, c, default) ==
    IF HasCol(df, c) THEN row[ColIdx(df, c)] ELSE default

\* df[c] = vals: replaces the column in place or appends a new one
SetCol(df, c, vals) ==
    IF HasCol(df, c)
    THEN [df EXCEPT !.rows =
             [r \in 1..Len(df.rows) |-> [df.rows[r] EXCEPT ![ColIdx(df, c)] = vals[r]]]]
    ELSE [df EXCEPT !.cols = Append(df.cols, c),
                    !.rows = [r \in 1..Len(df.rows) |-> Append(df.rows[r], vals[r])]]

\* df[mask]
FilterRows(df, Keep(_)) == [df EXCEPT !.rows = SelectSeq(df.rows, Keep)]

\* pd.read_csv of text lines: the first line names the columns, an empty cell
\* reads as NaN (the lines of the inputs below all have the same width)
ReadCsv(lines) ==
    DataFrame(lines[1],
              [r \in 1..(Len(lines) - 1) |->
                  [k \in 1..Len(lines[r + 1]) |->
                      IF lines[r + 1][k] = <<>> THEN NaN ELSE lines[r + 1][k]]])

\* the .str accessor raises AttributeError on a column that holds no text
\* (all NaN reads as float64); a column without rows is object dtype
StrAccessorOk(df, c) ==
    df.rows = <<>> \/ \E r \in 1..Len(df.rows) : df.rows[r][ColIdx(df, c)] # NaN

\* groupby(key, as_index=False).agg({sumcol: 'sum', others: 'first'}): one row
\* per key in ascending key order, NaN keys dropped; columns are the key,
\* sumcol, then the others in frame order; 'first' is the first non-null cell
GroupFirst(df, rs, c) ==
    LET vals == SelectSeq([k \in 1..Len(rs) |-> df.rows[rs[k]][ColIdx(df, c)]],
                          LAMBDA v : v # NaN)
    IN  IF vals = <<>> THEN NaN ELSE Head(vals)

\* a deduplication that keeps the first row's duration instead of the sum
GroupSumFirstOnly(df, rs, sumcol) == df.rows[rs[1]][ColIdx(df, sumcol)]

GroupSum(df, rs, sumcol) ==
    SumSeq([k \in 1..Len(rs) |-> df.rows[rs[k]][ColIdx(df, sumcol)]])

GroupByAgg(df, key, sumcol, dropped) ==
    LET keys   == SortedUnique(SelectSeq(Column(df, key), LAMBDA v : v # NaN))
        others == SelectSeq(df.cols, LAMBDA c : c \notin ({key, sumcol} \cup dropped))
        Members(kv) == Indices(Column(df, key), LAMBDA v : v = kv, 1)
    IN  DataFrame(<<key, sumcol>> \o others,
                  [g \in 1..Len(keys) |->
                      <<keys[g], GroupSum(df, Members(keys[g]), sumcol)>> \o
                      [o \in 1..Len(others) |->
                          GroupFirst(df, Members(keys[g]), others[o])]])

----------------------------------------------------------------------------
(* Text constants of the source *)

t_email == <<"e", "m", "a", "i", "l">>
t_name == <<"n", "a", "m", "e">>
t_duration_mins == <<"d", "u", "r", "a", "t", "i", "o", "n", "_", "m", "i", "n", "s">>
t_user_email == <<"u", "s", "e", "r", "_", "e", "m", "a", "i", "l">>
t_user_name == <<"u", "s", "e", "r", "_", "n", "a", "m", "e">>
t_join_time == <<"j", "o", "i", "n", "_", "t", "i", "m", "e">>
t_leave_time == <<"l", "e", "a", "v", "e", "_", "t", "i", "m", "e">>
t_in_waiting_room == <<"i", "n", "_", "w", "a", "i", "t", "i", "n", "g", "_", "r", "o", "o", "m">>
t_duration == <<"d", "u", "r", "a", "t", "i", "o", "n">>
t_minute == <<"m", "i", "n", "u", "t", "e">>
t_original == <<"o", "r", "i", "g", "i", "n", "a", "l">>
t_join == <<"j", "o", "i", "n">>
t_time == <<"t", "i", "m", "e">>
t_leave == <<"l", "e", "a", "v", "e">>
t_waiting == <<"w", "a", "i", "t", "i", "n", "g">>
t_room == <<"r", "o", "o", "m">>
t_nan == <<"n", "a", "n">>
t_Email == <<"E", "m", "a", "i", "l">>
t_Duration == <<"D", "u", "r", "a", "t", "i", "o", "n">>
t_Name == <<"N", "a", "m", "e">>

\* masterclass_analyzer.py EXCLUDED_DOMAINS, EXCLUDED_EMAILS
EXCLUDED_DOMAINS ==
    << <<"@", "i", "a", "m", "i", "r", "o", "n", "l", "a", "d", "y", ".", "c", "o", "m">>,
       <<"@", "i", "r", "o", "n", "l", "a", "d", "y", ".", "c", "o", "m">> >>

EXCLUDED_EMAILS ==
    << <<"a", "f", "r", "e", "e", "n", "7", "8", "6", "@", "g", "m", "a", "i", "l", ".", "c", "o", "m">>,
       <<"a", "b", "h", "i", "n", "a", "y", "a", "j", "a", "n", "a", "g", "a", "m", "a", "@", "g", "m", "a", "i", "l", ".", "c", "o", "m">>,
       <<"f", "a", "r", "h", "a", "n", "a", "a", "z", "0", "4", "1", "6", "@", "g", "m", "a", "i", "l", ".", "c", "o", "m">>,
       <<"m", "g", "h", "k", "h", "a", "n", "d", "e", "l", "w", "a", "l", "9", "3", "@", "g", "m", "a", "i", "l", ".", "c", "o", "m">>,
       <<"s", "h", "a", "r", "a", "n", "c", "h", "h", "a", "b", "r", "a", "6", "5", "@", "g", "m", "a", "i", "l", ".", "c", "o", "m">> >>

----------------------------------------------------------------------------
(* Inputs: the attendance export *)

\* header lines of attendance exports
HeaderNew ==
    << <<"N", "a", "m", "e", " ", "(", "o", "r", "i", "g", "i", "n", "a", "l", " ", "n", "a", "m", "e", ")">>,
       <<"E", "m", "a", "i", "l">>,
       <<"D", "u", "r", "a", "t", "i", "o", "n", " ", "(", "m", "i", "n", "u", "t", "e", "s", ")">> >>

HeaderPlain ==
    << <<"N", "a", "m", "e">>,
       <<"E", "m", "a", "i", "l">>,
       <<"D", "u", "r", "a", "t", "i", "o", "n", " ", "(", "M", "i", "n", "u", "t", "e", "s", ")">> >>

HeaderLower ==
    << <<"n", "a", "m", "e">>,
       <<"e", "m", "a", "i", "l">>,
       <<"d", "u", "r", "a", "t", "i", "o", "n", " ", "(", "m", "i", "n", "u", "t", "e", "s", ")">> >>

HeaderUser ==
    << <<"N", "a", "m", "e", " ", "(", "O", "r", "i", "g", "i", "n", "a", "l", " ", "N", "a", "m", "e", ")">>,
       <<"U", "s", "e", "r", " ", "E", "m", "a", "i", "l">>,
       <<"D", "u", "r", "a", "t", "i", "o", "n", " ", "(", "M", "i", "n", "u", "t", "e", "s", ")">> >>

HeaderBare ==
    << <<"N", "a", "m", "e">>,
       <<"E", "m", "a", "i", "l">>,
       <<"D", "u", "r", "a", "t", "i", "o", "n">> >>

HeaderNoDur ==
    << <<"N", "a", "m", "e">>,
       <<"E", "m", "a", "i", "l">>,
       <<"J", "o", "i", "n", " ", "T", "i", "m", "e">> >>

Headers == {HeaderNew, HeaderPlain, HeaderLower, HeaderUser, HeaderBare, HeaderNoDur}

\* the metadata lines an export may carry before its header
BannerTitles ==
    << <<"T", "o", "p", "i", "c">>,
       <<"H", "o", "s", "t">>,
       <<"D", "u", "r", "a", "t", "i", "o", "n", " ", "(", "m", "i", "n", "u", "t", "e", "s", ")">> >>

BannerValues ==
    << <<"M", "a", "s", "t", "e", "r", "c", "l", "a", "s", "s">>,
       <<"A", "d", "m", "i", "n", " ", "I", "r", "o", "n", " ", "L", "a", "d", "y">>,
       <<"1", "2", "0">> >>

BannerLine(i) == IF i = 1 THEN BannerTitles ELSE BannerValues

\* attendance rows: name, email, duration
RowBob1 ==
    << <<"B", "o", "b", " ", "S", "t", "o", "n", "e">>,
       <<"b", "o", "b", "@", "x", ".", "c", "o", "m">>,
       <<"1", "0">> >>

RowBob2 ==
    << <<"B", "o", "b", " ", "S">>,
       <<" ", "B", "o", "b", "@", "X", ".", "c", "o", "m", " ">>,
       <<"2", "5">> >>

RowCara ==
    << <<"C", "a", "r", "a", " ", "L", "e", "e">>,
       <<"c", "a", "r", "a", "@", "y", ".", "c", "o", "m">>,
       <<"5", "5">> >>

RowTeam ==
    << <<"M", "e", "g", "h", "a", " ", "K">>,
       <<"m", "e", "g", "h", "a", "@", "i", "a", "m", "i", "r", "o", "n", "l", "a", "d", "y", ".", "c", "o", "m">>,
       <<"6", "0">> >>

RowPersonal ==
    << <<"A", "f", "r", "e", "e", "n">>,
       <<"A", "f", "r", "e", "e", "n", "7", "8", "6", "@", "g", "m", "a", "i", "l", ".", "c", "o", "m">>,
       <<"4", "5", " ", "m", "i", "n">> >>

RowAnon ==
    << <<"G", "u", "e", "s", "t">>,
       <<>>,
       <<"5">> >>

RowPool == {RowBob1, RowBob2, RowCara, RowTeam, RowPersonal, RowAnon}

----------------------------------------------------------------------------
(* Inputs: the chat transcript and the lead export *)

\* a transcript is held as its message blocks: a header line "<stamp> From
\* <sender> to Everyone:", dated ("2025-11-29 17:03:48") or time-only ("17:03:48"),
\* and the text that follows it
MsgBobHello ==
    [stamp   |-> "dated",
     sender  |-> <<"B", "o", "b", " ", "S", "t", "o", "n", "e">>,
     message |-> <<"h", "e", "l", "l", "o", " ", "a", "l", "l">>]
MsgBobAsks ==
    [stamp   |-> "dated",
     sender  |-> <<"b", "o", "b", " ", "s">>,
     message |-> <<"w", "h", "e", "n", " ", "i", "s", " ", "t", "h", "e", " ", "n", "e", "x", "t", " ", "b", "a", "t", "c", "h", "?">>]
MsgAdmin ==
    [stamp   |-> "dated",
     sender  |-> <<"A", "d", "m", "i", "n", " ", "I", "r", "o", "n", " ", "L", "a", "d", "y">>,
     message |-> <<"W", "e", "l", "c", "o", "m", "e", "!", " ", "Q", "u", "e", "s", "t", "i", "o", "n", "s", "?">>]
MsgCaraBlank ==
    [stamp   |-> "dated",
     sender  |-> <<"C", "a", "r", "a", " ", "L", "e", "e">>,
     message |-> <<" ", " ">>]

ChatTalk == [given |-> TRUE, exists |-> TRUE,
             lines |-> <<MsgBobHello, MsgAdmin, MsgBobAsks, MsgCaraBlank>>]

\* a path that was given and does not exist
GivenMissing == [given |-> TRUE, exists |-> FALSE, lines |-> <<>>]

\* a file that holds nothing
GivenEmpty == [given |-> TRUE, exists |-> TRUE, lines |-> <<>>]

CrmHeader ==
    << <<"E", "m", "a", "i", "l">>,
       <<"L", "e", "a", "d", " ", "O", "w", "n", "e", "r">> >>
CrmHeaderNoEmail ==
    << <<"C", "o", "n", "t", "a", "c", "t">>,
       <<"L", "e", "a", "d", " ", "O", "w", "n", "e", "r">> >>
LeadBob ==
    << <<"b", "o", "b", "@", "x", ".", "c", "o", "m">>,
       <<"A", "s", "h", "a", " ", "R", "a", "o">> >>
LeadBobAgain ==
    << <<" ", "B", "o", "b", "@", "X", ".", "c", "o", "m">>,
       <<"R", "a", "v", "i", " ", "J", "a", "i", "n">> >>
LeadCara ==
    << <<"c", "a", "r", "a", "@", "y", ".", "c", "o", "m">>,
       <<>> >>

CrmHeaderProfile ==
    << <<"E", "m", "a", "i", "l">>,
       <<"L", "e", "a", "d", " ", "O", "w", "n", "e", "r">>,
       <<"I", "n", "d", "u", "s", "t", "r", "y">>,
       <<"E", "x", "p", "e", "r", "i", "e", "n", "c", "e">> >>

LeadBobTech ==
    << <<"b", "o", "b", "@", "x", ".", "c", "o", "m">>,
       <<"A", "s", "h", "a", " ", "R", "a", "o">>,
       <<"T", "e", "c", "h">>,
       <<"1", "2">> >>

LeadCaraHr ==
    << <<"c", "a", "r", "a", "@", "y", ".", "c", "o", "m">>,
       <<>>,
       <<"H", "R">>,
       <<"3">> >>

CrmFile(header, rows) == [given |-> TRUE, exists |-> TRUE, lines |-> <<header>> \o rows]

\* text constants of the chat and lead code
t_sender_admin == <<"a", "d", "m", "i", "n", " ", "i", "r", "o", "n", " ", "l", "a", "d", "y">>
t_lead_owner == <<"l", "e", "a", "d", " ", "o", "w", "n", "e", "r">>
t_lead_status == <<"l", "e", "a", "d", " ", "s", "t", "a", "t", "u", "s">>
t_lead_source == <<"l", "e", "a", "d", " ", "s", "o", "u", "r", "c", "e">>
t_industry == <<"i", "n", "d", "u", "s", "t", "r", "y">>
t_field_of_work == <<"f", "i", "e", "l", "d", " ", "o", "f", " ", "w", "o", "r", "k">>
t_experience == <<"e", "x", "p", "e", "r", "i", "e", "n", "c", "e">>
t_years == <<"y", "e", "a", "r", "s">>
t_rm_name == <<"r", "m", "_", "n", "a", "m", "e">>
t_status == <<"s", "t", "a", "t", "u", "s">>
t_profile == <<"p", "r", "o", "f", "i", "l", "e">>
t_experience_years == <<"e", "x", "p", "e", "r", "i", "e", "n", "c", "e", "_", "y", "e", "a", "r", "s">>
t_experience_bracket == <<"e", "x", "p", "e", "r", "i", "e", "n", "c", "e", "_", "b", "r", "a", "c", "k", "e", "t">>
t_email_normalized == <<"e", "m", "a", "i", "l", "_", "n", "o", "r", "m", "a", "l", "i", "z", "e", "d">>
t_crm_suffix == <<"_", "c", "r", "m">>
t_Unassigned == <<"U", "n", "a", "s", "s", "i", "g", "n", "e", "d">>
t_Unknown == <<"U", "n", "k", "n", "o", "w", "n">>
t_Not_Specified == <<"N", "o", "t", " ", "S", "p", "e", "c", "i", "f", "i", "e", "d">>
t_rm == <<"r", "m">>
t_owner == <<"o", "w", "n", "e", "r">>
t_lead_name == <<"l", "e", "a", "d", "_", "n", "a", "m", "e">>
t_first_name == <<"f", "i", "r", "s", "t", " ", "n", "a", "m", "e">>
t_firstname == <<"f", "i", "r", "s", "t", "n", "a", "m", "e">>
t_last_name == <<"l", "a", "s", "t", " ", "n", "a", "m", "e">>
t_lastname == <<"l", "a", "s", "t", "n", "a", "m", "e">>
t_record_id == <<"r", "e", "c", "o", "r", "d", " ", "i", "d">>
t_recordid == <<"r", "e", "c", "o", "r", "d", "i", "d">>
t_Last_Name == <<"L", "a", "s", "t", " ", "N", "a", "m", "e">>
t_rm_email == <<"r", "m", "_", "e", "m", "a", "i", "l">>
MissingFile == [exists |-> FALSE, lines |-> <<>>]

\* an export: k banner lines, the header line, the rows
ZoomFile(k, header, rows) ==
    [exists |-> TRUE,
     lines  |-> [i \in 1..k |-> BannerLine(i)] \o <<header>> \o rows]

RowSeqs(pool, n) == UNION {[1..m -> pool] : m \in 0..n}

----------------------------------------------------------------------------
(* masterclass_analyzer.py: exclusion of team members *)

is_team_member(email) ==
    /\ email # NaN /\ email # <<>>
    /\ LET email_lower == Lower(Strip(email))
       IN  \/ \E d \in 1..Len(EXCLUDED_DOMAINS) :
                  EndsWith(email_lower, Lower(EXCLUDED_DOMAINS[d]))
           \/ \E e \in 1..Len(EXCLUDED_EMAILS) :
                  email_lower = Lower(EXCLUDED_EMAILS[e])

\* the frame without team members, and how many rows were removed
filter_team_members(df, email_column) ==
    IF df.none \/ df.rows = <<>> \/ df.cols = <<>> \/ ~HasCol(df, email_column)
    THEN [df |-> df, excluded |-> 0]
    ELSE LET filtered_df ==
                 FilterRows(df, LAMBDA row : ~is_team_member(row[ColIdx(df, email_column)]))
         IN  [df |-> filtered_df, excluded |-> Len(df.rows) - Len(filtered_df.rows)]

----------------------------------------------------------------------------
(* masterclass_analyzer.py: load_zoom_participants *)

\* str.extract(r'(\d+)'): the first run of digits of the cell's text, as a number;
\* a cell without digits (NaN prints as 'nan') coerces to NaN and fills with 0
RECURSIVE TakeDigits(_)
TakeDigits(s) ==
    IF s # <<>> /\ IsDigit(Head(s)) THEN <<Head(s)>> \o TakeDigits(Tail(s)) ELSE <<>>

RECURSIVE FirstDigitRun(_)
FirstDigitRun(s) ==
    IF s = <<>> THEN <<>>
    ELSE IF IsDigit(Head(s)) THEN TakeDigits(s)
    ELSE FirstDigitRun(Tail(s))

MA_Duration(cell) ==
    IF cell = NaN THEN 0 ELSE DigitsValue(FirstDigitRun(cell), 0)

\* df.columns.str.strip().str.lower().str.replace(' ', '_')
MA_NormalizeColumn(col) == ReplaceChar(Lower(Strip(col)), " ", "_")

MA_DurationColumns(df) ==
    SelectSeq(df.cols, LAMBDA col : Contains(col, t_duration) /\ Contains(col, t_minute))

\* nunique(): the number of distinct non-null values
NUnique(vals) == Cardinality({vals[i] : i \in 1..Len(vals)} \ {NaN})

\* lines 96-119: the frame as read, with normalized column names and the numeric
\* duration_mins column
MA_read(file) ==
    LET raw == ReadCsv(file.lines)
        df1 == [raw EXCEPT !.cols = [i \in 1..Len(raw.cols) |-> MA_NormalizeColumn(raw.cols[i])]]
        durs == MA_DurationColumns(df1)
    IN  SetCol(df1, t_duration_mins,
               [r \in 1..Len(df1.rows) |->
                   IF durs # <<>> THEN MA_Duration(df1.rows[r][ColIdx(df1, Head(durs))])
                   ELSE 0])

\* lines 121-147: emails normalized; when some email repeats (or is missing), one
\* row per email
MA_dedup(df2) ==
    LET durs == MA_DurationColumns(df2)
        df3 == SetCol(df2, t_email,
                      [r \in 1..Len(df2.rows) |-> Lower(Strip(df2.rows[r][ColIdx(df2, t_email)]))])
        unique_emails == NUnique(Column(df3, t_email))
        original_count == Len(df2.rows)
    IN  IF ~HasCol(df2, t_email) THEN df2
        ELSE IF unique_emails < original_count
             THEN GroupByAgg(df3, t_email, t_duration_mins,
                             IF durs # <<>> THEN {Head(durs)} ELSE {})
             ELSE df3

\* the result of load_zoom_participants on a file: ok is the return value, df the
\* frame stored in participants_data when ok; any exception returns False
MA_load_zoom_participants(file) ==
    IF ~file.exists \/ file.lines = <<>>
    THEN [ok |-> FALSE, df |-> None, excluded |-> 0]
    ELSE
    LET df2 == MA_read(file)
        filtered == filter_team_members(MA_dedup(df2), t_email)
    IN  IF HasCol(df2, t_email) /\ ~StrAccessorOk(df2, t_email)
        THEN [ok |-> FALSE, df |-> None, excluded |-> 0]
        ELSE [ok |-> TRUE, df |-> filtered.df, excluded |-> filtered.excluded]

----------------------------------------------------------------------------
(* dashboard.py: load_zoom_participants *)

LineContains(line, word) == \E k \in 1..Len(line) : Contains(line[k], word)

\* 'Email' in line and 'Duration' in line and 'Name' in line
DB_IsHeaderLine(line) ==
    LineContains(line, t_Email) /\ LineContains(line, t_Duration) /\ LineContains(line, t_Name)

\* the positions (from 1) of the lines that pass the header test
DB_HeaderLines(lines) == {i \in 1..Len(lines) : DB_IsHeaderLine(lines[i])}

DB_FirstHeader(lines) ==
    CHOOSE i \in DB_HeaderLines(lines) : \A j \in DB_HeaderLines(lines) : i <= j

\* the internal name a column is renamed to (itself when no rule applies)
DB_ColMapping(col) ==
    LET col_lower == RemoveChar(RemoveChar(ReplaceChar(Lower(col), " ", "_"), "("), ")")
    IN  IF Contains(col_lower, t_email) THEN t_email
        ELSE IF Contains(col_lower, t_name) /\ Contains(col_lower, t_original) THEN t_name
        ELSE IF Contains(col_lower, t_duration) /\ Contains(col_lower, t_minute) THEN t_duration_mins
        ELSE IF Contains(col_lower, t_join) /\ Contains(col_lower, t_time) THEN t_join_time
        ELSE IF Contains(col_lower, t_leave) /\ Contains(col_lower, t_time) THEN t_leave_time
        ELSE IF Contains(col_lower, t_waiting) /\ Contains(col_lower, t_room) THEN t_in_waiting_room
        ELSE col

\* pd.to_numeric(errors='coerce').fillna(0): the number the whole cell spells, else 0
ToNumericOr0(cell) ==
    IF cell # NaN /\ cell # <<>> /\ \A k \in 1..Len(cell) : IsDigit(cell[k])
    THEN DigitsValue(cell, 0) ELSE 0

\* astype(str): NaN prints as 'nan'
AsStr(cell) == IF cell = NaN THEN t_nan ELSE cell

\* lines 86-125: the frame read from the header line on, columns renamed, with
\* the numeric duration_mins column
DB_read(file) ==
    LET first == DB_FirstHeader(file.lines)
        raw == ReadCsv(SubSeq(file.lines, first, Len(file.lines)))
        df1 == [raw EXCEPT !.cols = [i \in 1..Len(raw.cols) |-> DB_ColMapping(Strip(raw.cols[i]))]]
        durs == SelectSeq(df1.cols, LAMBDA col : Contains(Lower(col), t_duration))
    IN  IF HasCol(df1, t_duration_mins)
        THEN SetCol(df1, t_duration_mins,
                    [r \in 1..Len(df1.rows) |-> ToNumericOr0(df1.rows[r][ColIdx(df1, t_duration_mins)])])
        ELSE SetCol(df1, t_duration_mins,
                    [r \in 1..Len(df1.rows) |->
                        IF durs # <<>> THEN ToNumericOr0(df1.rows[r][ColIdx(df1, Head(durs))])
                        ELSE 0])

\* lines 127-145: emails normalized, rows without an email dropped, one row per email
DB_dedup(df2) ==
    LET df3 == SetCol(df2, t_email,
                      [r \in 1..Len(df2.rows) |-> Lower(Strip(AsStr(df2.rows[r][ColIdx(df2, t_email)])))])
        df4 == FilterRows(df3, LAMBDA row : row[ColIdx(df3, t_email)] \notin {<<>>, t_nan})
    IN  IF HasCol(df2, t_email) THEN GroupByAgg(df4, t_email, t_duration_mins, {}) ELSE df2

DB_load_zoom_participants(file) ==
    IF DB_HeaderLines(file.lines) = {}
    THEN [ok |-> FALSE, df |-> None, header_row_idx |-> -1]
    ELSE [ok |-> TRUE, df |-> DB_dedup(DB_read(file)),
          header_row_idx |-> DB_FirstHeader(file.lines) - 1]

----------------------------------------------------------------------------
(* load_zoom_chat *)

\* a frame that keeps only the first of the records that are the same
ChatFrameDeduplicated(records) ==
    LET first == { k \in 1..Len(records) : \A j \in 1..(k - 1) : records[j] # records[k] }
    IN  [none |-> FALSE,
         rows |-> [r \in 1..Cardinality(first) |->
                      records[CHOOSE k \in first : Cardinality({ j \in first : j <= k }) = r]]]

\* pd.DataFrame(chat_records): a frame of records; without records it has no columns
ChatFrame(records) == [none |-> FALSE, rows |-> records]

NoChat == [none |-> TRUE, rows |-> <<>>]

chat_record(block) ==
    [sender      |-> Strip(block.sender),
     message     |-> Strip(block.message),
     is_question |-> \E k \in 1..Len(Strip(block.message)) : Strip(block.message)[k] = "?"]

\* the header line of a block, with or without the date before the time, and
\* the block as it stands in the file
Header(block) ==
    (IF block.stamp = "dated"
     THEN <<"2", "0", "2", "5", "-", "1", "1", "-", "2", "9", " ">> ELSE <<>>)
        \o <<"1", "7", ":", "0", "3", ":", "4", "8">>
        \o <<" ", "F", "r", "o", "m", " ">> \o block.sender
        \o <<" ", "t", "o", " ", "E", "v", "e", "r", "y", "o", "n", "e", ":">>
Written(block) == Header(block) \o <<"\n", "\t">> \o block.message \o <<"\n">>

\* content[...]: the blocks i..j as they stand in the file
RECURSIVE WrittenRange(_, _, _)
WrittenRange(blocks, i, j) ==
    IF i > j THEN <<>> ELSE Written(blocks[i]) \o WrittenRange(blocks, i + 1, j)

\* the first block from `from` on whose header is of one of the stamps; Len + 1
\* when there is none
RECURSIVE NextHeader(_, _, _)
NextHeader(blocks, from, stamps) ==
    IF from > Len(blocks) THEN Len(blocks) + 1
    ELSE IF blocks[from].stamp \in stamps THEN from
    ELSE NextHeader(blocks, from + 1, stamps)

\* masterclass_analyzer.py: re.finditer of the dated header; the text of a match
\* runs to the start of the next match (the inputs hold no text line that
\* starts with a date, so the re.sub of line 206 removes nothing)
RECURSIVE MA_matches(_, _)
MA_matches(blocks, i) ==
    IF i > Len(blocks) THEN <<>>
    ELSE IF blocks[i].stamp # "dated" THEN MA_matches(blocks, i + 1)
    ELSE LET next == NextHeader(blocks, i + 1, {"dated"})
         IN  << [sender  |-> blocks[i].sender,
                 message |-> blocks[i].message \o <<"\n">>
                                 \o WrittenRange(blocks, i + 1, next - 1)] >>
                 \o MA_matches(blocks, next)

\* masterclass_analyzer.py: matches of the Admin / Iron Lady senders and matches
\* without text are skipped; a file that cannot be opened returns False
MA_load_zoom_chat(file) ==
    IF ~file.exists THEN [ok |-> FALSE, chat |-> NoChat]
    ELSE LET kept == SelectSeq(MA_matches(file.lines, 1), LAMBDA block :
                        /\ ~Contains(Lower(Strip(block.sender)), t_sender_admin)
                        /\ ~EndsWith(Lower(Strip(block.sender)), EXCLUDED_DOMAINS[1])
                        /\ Strip(block.message) # <<>>)
         IN  [ok |-> TRUE, chat |-> ChatFrame([k \in 1..Len(kept) |-> chat_record(kept[k])])]

\* dashboard.py: re.findall of a pattern whose headers are of the stamps in
\* starts and whose text group (.+?) runs to the next line that begins with a
\* stamp of enders; the group takes at least one character after the white
\* space that follows the header, so a match without text of its own runs on
\* through the block that follows it
RECURSIVE DB_matches(_, _, _, _)
DB_matches(blocks, i, starts, enders) ==
    IF i > Len(blocks) THEN <<>>
    ELSE IF blocks[i].stamp \notin starts THEN DB_matches(blocks, i + 1, starts, enders)
    ELSE LET from == IF Strip(blocks[i].message) = <<>> THEN i + 2 ELSE i + 1
             next == NextHeader(blocks, from, enders)
         IN  << [sender  |-> blocks[i].sender,
                 message |-> blocks[i].message \o <<"\n">>
                                 \o WrittenRange(blocks, i + 1, next - 1)] >>
                 \o DB_matches(blocks, next, starts, enders)

\* pattern1, the dated header; pattern2, the time of day, which a dated header
\* holds as well
matches1(blocks) == DB_matches(blocks, 1, {"dated"}, {"dated"})
matches2(blocks) == DB_matches(blocks, 1, {"dated", "timed"}, {"timed"})

\* dashboard.py: the pattern with the more matches (pattern1 on a tie); every
\* match with text is kept, whoever sent it
DB_load_zoom_chat(file) ==
    LET matches == IF Len(matches1(file.lines)) >= Len(matches2(file.lines))
                   THEN matches1(file.lines) ELSE matches2(file.lines)
        kept    == SelectSeq(matches, LAMBDA block : Strip(block.message) # <<>>)
    IN  [ok |-> TRUE, chat |-> ChatFrame([k \in 1..Len(kept) |-> chat_record(kept[k])])]

----------------------------------------------------------------------------
(* load_crm_data *)

\* the last column that satisfies Test (a later column overwrites the mapping of
\* an earlier one); <<>> when there is none
LastCol(cols, Test(_)) ==
    LET hits == SelectSeq(cols, Test)
    IN  IF hits = <<>> THEN <<>> ELSE hits[Len(hits)]

StripCols(df) == [df EXCEPT !.cols = [i \in 1..Len(df.cols) |-> Strip(df.cols[i])]]

\* the branch of the elif chain of masterclass_analyzer.py a column falls in
MA_CrmKind(col) ==
    LET col_lower == Lower(col)
    IN  IF col_lower = t_email THEN "email_col"
        ELSE IF Contains(col_lower, t_lead_owner) THEN "lead_owner"
        ELSE IF col_lower \in {t_first_name, t_firstname} THEN "first_name"
        ELSE IF col_lower \in {t_last_name, t_lastname} THEN "last_name"
        ELSE IF Contains(col_lower, t_lead_status) THEN "lead_status"
        ELSE IF Contains(col_lower, t_lead_source) THEN "lead_source"
        ELSE IF Contains(col_lower, t_industry) \/ Contains(col_lower, t_field_of_work)
             THEN "industry"
        ELSE IF col_lower \in {t_record_id, t_recordid} THEN "record_id"
        ELSE IF Contains(col_lower, t_experience) \/ Contains(col_lower, t_years)
             THEN "experience"
        ELSE "other"

\* df[new] = df[the column mapped to kind], when one is mapped
MA_CopyCol(df, kind, new) ==
    LET col == LastCol(df.cols, LAMBDA c : MA_CrmKind(c) = kind)
    IN  IF col = <<>> THEN df ELSE SetCol(df, new, Column(df, col))

\* pd.to_numeric(errors='coerce'): the text of a whole number, else NaN
ToNumeric(cell) ==
    IF cell # NaN /\ cell # <<>> /\ \A k \in 1..Len(cell) : IsDigit(cell[k])
    THEN cell ELSE NaN

\* the brackets cut below the thresholds instead of at them
get_exp_bracket_below(years) ==
    IF years = NaN THEN t_Not_Specified
    ELSE IF DigitsValue(years, 0) < 5 THEN <<"0", "-", "5", " ", "y", "e", "a", "r", "s">>
    ELSE IF DigitsValue(years, 0) < 10 THEN <<"6", "-", "1", "0", " ", "y", "e", "a", "r", "s">>
    ELSE IF DigitsValue(years, 0) < 15 THEN <<"1", "1", "-", "1", "5", " ", "y", "e", "a", "r", "s">>
    ELSE IF DigitsValue(years, 0) < 20 THEN <<"1", "6", "-", "2", "0", " ", "y", "e", "a", "r", "s">>
    ELSE <<"2", "0", "+", " ", "y", "e", "a", "r", "s">>

\* load_crm_data's get_exp_bracket, applied to the cells pd.to_numeric made
get_exp_bracket(years) ==
    IF years = NaN THEN t_Not_Specified
    ELSE IF DigitsValue(years, 0) <= 5 THEN <<"0", "-", "5", " ", "y", "e", "a", "r", "s">>
    ELSE IF DigitsValue(years, 0) <= 10 THEN <<"6", "-", "1", "0", " ", "y", "e", "a", "r", "s">>
    ELSE IF DigitsValue(years, 0) <= 15 THEN <<"1", "1", "-", "1", "5", " ", "y", "e", "a", "r", "s">>
    ELSE IF DigitsValue(years, 0) <= 20 THEN <<"1", "6", "-", "2", "0", " ", "y", "e", "a", "r", "s">>
    ELSE <<"2", "0", "+", " ", "y", "e", "a", "r", "s">>

\* analyze_by_experience's get_exp_bracket, applied to a column of raw years:
\* float(years) succeeds on a run of digits and raises ValueError on any other
\* text of the inputs
analyze_get_exp_bracket(years) ==
    IF years = NaN THEN t_Not_Specified
    ELSE IF years = <<>> \/ \E k \in 1..Len(years) : ~IsDigit(years[k]) THEN t_Not_Specified
    ELSE IF DigitsValue(years, 0) <= 5 THEN <<"0", "-", "5", " ", "y", "e", "a", "r", "s">>
    ELSE IF DigitsValue(years, 0) <= 10 THEN <<"6", "-", "1", "0", " ", "y", "e", "a", "r", "s">>
    ELSE IF DigitsValue(years, 0) <= 15 THEN <<"1", "1", "-", "1", "5", " ", "y", "e", "a", "r", "s">>
    ELSE IF DigitsValue(years, 0) <= 20 THEN <<"1", "6", "-", "2", "0", " ", "y", "e", "a", "r", "s">>
    ELSE <<"2", "0", "+", " ", "y", "e", "a", "r", "s">>

MA_Experience(df) ==
    LET col == LastCol(df.cols, LAMBDA c : MA_CrmKind(c) = "experience")
        df1 == SetCol(df, t_experience_years,
                      [r \in 1..Len(df.rows) |-> ToNumeric(df.rows[r][ColIdx(df, col)])])
    IN  IF col = <<>> THEN df
        ELSE SetCol(df1, t_experience_bracket,
                    [r \in 1..Len(df1.rows) |->
                        get_exp_bracket(df1.rows[r][ColIdx(df1, t_experience_years)])])

MA_load_crm_data(file) ==
    IF ~file.exists \/ file.lines = <<>> THEN [ok |-> FALSE, df |-> None]
    ELSE
    LET df0 == StripCols(ReadCsv(file.lines))
        email_col == LastCol(df0.cols, LAMBDA c : MA_CrmKind(c) = "email_col")
        df1 == IF email_col = <<>> THEN df0
               ELSE SetCol(df0, t_email,
                           [r \in 1..Len(df0.rows) |->
                               Lower(Strip(df0.rows[r][ColIdx(df0, email_col)]))])
        df2 == MA_CopyCol(df1, "lead_owner", t_rm_name)
        df3 == MA_CopyCol(df2, "lead_status", t_status)
        df4 == MA_CopyCol(df3, "industry", t_profile)
    IN  IF email_col # <<>> /\ ~StrAccessorOk(df0, email_col)
        THEN [ok |-> FALSE, df |-> None]
        ELSE [ok |-> TRUE, df |-> MA_Experience(df4)]

\* df[c].fillna(value)
FillNa(df, c, value) ==
    [r \in 1..Len(df.rows) |->
        IF df.rows[r][ColIdx(df, c)] = NaN THEN value ELSE df.rows[r][ColIdx(df, c)]]

\* df[new] = df[col].fillna(value), or the value alone when no column was found
DB_FilledCol(df, new, col, value) ==
    SetCol(df, new, IF col = <<>> THEN [r \in 1..Len(df.rows) |-> value]
                    ELSE FillNa(df, col, value))

\* the branch of the elif chain of dashboard.py a column falls in
DB_CrmKind(col) ==
    LET col_lower == Lower(col)
    IN  IF col_lower = t_email THEN "email"
        ELSE IF \/ Contains(col_lower, t_lead_owner) \/ Contains(col_lower, t_rm)
                \/ Contains(col_lower, t_owner) THEN "rm"
        ELSE IF \/ Contains(col_lower, t_industry) \/ Contains(col_lower, t_field_of_work)
                \/ Contains(col_lower, t_profile) THEN "profile"
        ELSE IF Contains(col_lower, t_name) THEN "name"
        ELSE "other"

DB_load_crm_data(file) ==
    IF file.lines = <<>> THEN [ok |-> FALSE, df |-> None]
    ELSE
    LET raw == StripCols(ReadCsv(file.lines))
        df0 == FilterRows(raw, LAMBDA row : \E k \in 1..Len(row) : row[k] # NaN)
        email_col == LastCol(df0.cols, LAMBDA c : DB_CrmKind(c) = "email")
        rm_col == LastCol(df0.cols, LAMBDA c : DB_CrmKind(c) = "rm")
        profile_col == LastCol(df0.cols, LAMBDA c : DB_CrmKind(c) = "profile")
        names == SelectSeq(df0.cols, LAMBDA c : DB_CrmKind(c) = "name")
        df1 == SetCol(df0, t_email,
                      [r \in 1..Len(df0.rows) |->
                          Lower(Strip(AsStr(df0.rows[r][ColIdx(df0, email_col)])))])
        df2 == FilterRows(df1, LAMBDA row : row[ColIdx(df1, t_email)] \notin {<<>>, t_nan})
        df3 == DB_FilledCol(df2, t_rm_name, rm_col, t_Unassigned)
        df4 == DB_FilledCol(df3, t_profile, profile_col, t_Unknown)
    IN  IF email_col = <<>> THEN [ok |-> FALSE, df |-> None]
        ELSE [ok |-> TRUE,
              df |-> IF names = <<>> THEN df4
                     ELSE SetCol(df4, t_lead_name, FillNa(df4, names[1], <<>>))]

----------------------------------------------------------------------------
(* match_participants_with_crm *)

RECURSIVE Flatten(_)
Flatten(seqs) == IF seqs = <<>> THEN <<>> ELSE Head(seqs) \o Flatten(Tail(seqs))

\* left.merge(right, on=key, how='left'): the rows of left in order, each once per
\* row of right with the same key (NaN keys match each other), or once with
\* missing cells; a column of right that left also has takes the suffix
MergeLeft(left, right, key, suffix) ==
    LET rcols == SelectSeq(right.cols, LAMBDA c : c # key)
        RightCells(rrow) == [k \in 1..Len(rcols) |-> rrow[ColIdx(right, rcols[k])]]
        Matches(lrow) ==
            SelectSeq(right.rows,
                      LAMBDA rrow : rrow[ColIdx(right, key)] = lrow[ColIdx(left, key)])
        Joined(lrow) ==
            IF Matches(lrow) = <<>> THEN << lrow \o [k \in 1..Len(rcols) |-> NaN] >>
            ELSE [m \in 1..Len(Matches(lrow)) |-> lrow \o RightCells(Matches(lrow)[m])]
    IN  DataFrame(left.cols \o [k \in 1..Len(rcols) |->
                                   IF HasCol(left, rcols[k]) THEN rcols[k] \o suffix
                                   ELSE rcols[k]],
                  Flatten([r \in 1..Len(left.rows) |-> Joined(left.rows[r])]))

\* 'email' if the frame has it, else the first column whose name contains 'email'
MA_EmailColumn(df) ==
    LET hits == SelectSeq(df.cols, LAMBDA c : Contains(Lower(c), t_email))
    IN  IF HasCol(df, t_email) THEN t_email
        ELSE IF hits = <<>> THEN <<>> ELSE hits[1]

\* df['email_normalized'] = df[col].str.strip().str.lower()
MA_WithNormalized(df, col) ==
    SetCol(df, t_email_normalized,
           [r \in 1..Len(df.rows) |-> Lower(Strip(df.rows[r][ColIdx(df, col)]))])

\* ret: the return value; raised: an exception left the method; participants and
\* crm: the two attributes afterwards
MA_match_participants_with_crm(participants, crm) ==
    LET participant_email_col == MA_EmailColumn(participants)
        crm_email_col == MA_EmailColumn(crm)
        Unmatched(r, p) == [ret |-> FALSE, raised |-> r, participants |-> p, crm |-> crm]
        left == MA_WithNormalized(participants, participant_email_col)
        right == MA_WithNormalized(crm, crm_email_col)
        merged == MergeLeft(left, right, t_email_normalized, t_crm_suffix)
    IN  IF participants.none \/ crm.none THEN Unmatched(FALSE, participants)
        ELSE IF participant_email_col = <<>> \/ crm_email_col = <<>>
             THEN Unmatched(FALSE, participants)
        ELSE IF ~StrAccessorOk(participants, participant_email_col)
             THEN Unmatched(TRUE, participants)
        ELSE IF ~StrAccessorOk(crm, crm_email_col) THEN Unmatched(TRUE, left)
        ELSE [ret |-> TRUE, raised |-> FALSE, crm |-> right,
              participants |->
                  IF ~HasCol(merged, t_email)
                  THEN SetCol(merged, t_email, Column(merged, participant_email_col))
                  ELSE merged]

\* df[cols]
SelectCols(df, cols) ==
    DataFrame(cols, [r \in 1..Len(df.rows) |->
                        [k \in 1..Len(cols) |-> df.rows[r][ColIdx(df, cols[k])]]])

\* df.drop_duplicates(subset=key): the first row of every key
DropDuplicates(df, key) ==
    LET keys == Column(df, key)
        firsts == {r \in 1..Len(keys) : \A q \in 1..(r - 1) : keys[q] # keys[r]}
    IN  [df EXCEPT !.rows = [k \in 1..Cardinality(firsts) |->
             df.rows[CHOOSE r \in firsts : Cardinality({q \in firsts : q < r}) = k - 1]]]

DB_match_participants_with_crm(participants, crm) ==
    LET right == DropDuplicates(SelectCols(crm, <<t_email, t_rm_name, t_profile>>), t_email)
        merged == MergeLeft(participants, right, t_email, <<"_", "y">>)
        filled == SetCol(merged, t_rm_name, FillNa(merged, t_rm_name, t_Unassigned))
    IN  IF participants.none \/ crm.none THEN [ret |-> FALSE, participants |-> participants]
        ELSE IF ~HasCol(participants, t_email) \/ ~HasCol(crm, t_email)
             THEN [ret |-> FALSE, participants |-> participants]
        ELSE [ret |-> TRUE,
              participants |-> SetCol(filled, t_profile, FillNa(filled, t_profile, t_Unknown))]

----------------------------------------------------------------------------
(* calculate_engagement_scores *)

\* Scores are held in tenths: 400 stands for 40.0.  A quotient x = num/den with
\* den > 0 is kept exact until it is rounded.

\* round(num/den, 1) in tenths; a tie goes to the even tenth (for sessions under
\* 160 minutes a tie is a binary fraction, which the float holds exactly)
RoundTenths(num, den) ==
    LET q == (10 * num) \div den
        r == (10 * num) % den
    IN  IF 2 * r < den THEN q
        ELSE IF 2 * r > den THEN q + 1
        ELSE IF q % 2 = 0 THEN q ELSE q + 1

\* min(message_count * 5, 30) without its cap
chat_points_uncapped(message_count) == message_count * 5

\* min(message_count * 5, 30)
chat_points(message_count) == Min(message_count * 5, 30)

\* min(question_count * 10, 20)
question_points(question_count) == Min(question_count * 10, 20)

\* the if/elif chain on total_score = total/den, before rounding
category_of(total, den) ==
    IF total >= 70 * den THEN "Hot"
    ELSE IF total >= 40 * den THEN "Warm"
    ELSE "Cold"

\* the four components, the total and the category of one participant, for a
\* session duration other than 0
score_components(duration, total_duration_mins, message_count, question_count) ==
    LET den == IF total_duration_mins < 0 THEN -total_duration_mins ELSE total_duration_mins
        raw == IF total_duration_mins < 0 THEN -(40 * duration) ELSE 40 * duration
        attendance == IF raw > 40 * den THEN 40 * den ELSE raw
        chat_score == chat_points(message_count)
        question_score == question_points(question_count)
        end_score == IF 10 * duration >= 8 * total_duration_mins THEN 10 ELSE 0
        total == attendance + (chat_score + question_score + end_score) * den
    IN  [attendance_score |-> RoundTenths(attendance, den),
         chat_score       |-> 10 * chat_score,
         question_score   |-> 10 * question_score,
         end_score        |-> 10 * end_score,
         total_score      |-> RoundTenths(total, den),
         category         |-> category_of(total, den)]

\* x or y
Or(x, y) == IF x = <<>> THEN y ELSE x

\* len(rows[rows['is_question'] == True])
CountQuestions(rows) == Len(SelectSeq(rows, LAMBDA m : m.is_question))

\* chat_data['sender'].str.contains(name, case=False, na=False), for a name
\* without regex metacharacters
MA_ParticipantMessages(chat, name) ==
    IF chat.none \/ chat.rows = <<>> THEN <<>>
    ELSE SelectSeq(chat.rows, LAMBDA m : Contains(Lower(m.sender), Lower(name)))

MA_score_row(df, row, chat, total_duration_mins) ==
    LET name == Or(RowGet(df, row, t_name, <<>>), RowGet(df, row, t_user_name, <<>>))
        msgs == MA_ParticipantMessages(chat, name)
    IN  [email |-> Or(RowGet(df, row, t_email, <<>>), RowGet(df, row, t_user_email, <<>>)),
         name |-> name,
         duration_mins |-> row[ColIdx(df, t_duration_mins)],
         rm_name |-> RowGet(df, row, t_rm_name, t_Unassigned),
         rm_email |-> RowGet(df, row, t_rm_email, <<>>),
         profile |-> RowGet(df, row, t_profile, <<>>),
         experience_years |-> RowGet(df, row, t_experience_years, NaN),
         experience_bracket |-> RowGet(df, row, t_experience_bracket, t_Not_Specified),
         lead_name |-> RowGet(df, row, t_lead_name, RowGet(df, row, t_Last_Name, <<>>))]
        @@ score_components(row[ColIdx(df, t_duration_mins)], total_duration_mins,
                            Len(msgs), CountQuestions(msgs))

\* a row on which the loop raises: division by a zero duration, or a missing name
\* given to str.contains
MA_RowRaises(df, row, chat, total_duration_mins) ==
    \/ total_duration_mins = 0
    \/ /\ ~chat.none /\ chat.rows # <<>>
       /\ Or(RowGet(df, row, t_name, <<>>), RowGet(df, row, t_user_name, <<>>)) = NaN

MA_calculate_engagement_scores(participants, chat, total_duration_mins) ==
    IF participants.none THEN [ret |-> FALSE, raised |-> FALSE, rows |-> <<>>]
    ELSE IF \E r \in 1..Len(participants.rows) :
                MA_RowRaises(participants, participants.rows[r], chat, total_duration_mins)
         THEN [ret |-> FALSE, raised |-> TRUE, rows |-> <<>>]
    ELSE [ret |-> TRUE, raised |-> FALSE,
          rows |-> [r \in 1..Len(participants.rows) |->
                       MA_score_row(participants, participants.rows[r], chat,
                                    total_duration_mins)]]

\* sender.str.lower().str.contains(first_name, regex=False), first_name the first
\* word of the lowercased name; no message for a participant without a name
DB_ParticipantMessages(chat, name) ==
    IF chat.none \/ chat.rows = <<>> \/ name = <<>> THEN <<>>
    ELSE IF SplitWs(Lower(AsStr(name)), <<>>, <<>>) = <<>> THEN <<>>
    ELSE SelectSeq(chat.rows, LAMBDA m :
             Contains(Lower(m.sender), SplitWs(Lower(AsStr(name)), <<>>, <<>>)[1]))

DB_score_row(df, row, chat, total_duration_mins) ==
    LET name == RowGet(df, row, t_name, <<>>)
        msgs == DB_ParticipantMessages(chat, name)
    IN  [email |-> RowGet(df, row, t_email, <<>>),
         name |-> name,
         duration_mins |-> row[ColIdx(df, t_duration_mins)],
         rm_name |-> AsStr(RowGet(df, row, t_rm_name, t_Unassigned)),
         profile |-> AsStr(RowGet(df, row, t_profile, t_Unknown)),
         message_count |-> Len(msgs),
         question_count |-> CountQuestions(msgs)]
        @@ score_components(row[ColIdx(df, t_duration_mins)], total_duration_mins,
                            Len(msgs), CountQuestions(msgs))

DB_calculate_engagement_scores(participants, chat, total_duration_mins) ==
    IF participants.none \/ participants.rows = <<>>
    THEN [ret |-> FALSE, raised |-> FALSE, rows |-> <<>>]
    ELSE IF total_duration_mins = 0 THEN [ret |-> FALSE, raised |-> TRUE, rows |-> <<>>]
    ELSE [ret |-> TRUE, raised |-> FALSE,
          rows |-> [r \in 1..Len(participants.rows) |->
                       DB_score_row(participants, participants.rows[r], chat,
                                    total_duration_mins)]]

----------------------------------------------------------------------------
(* analyze_exit_timeline *)

\* list(range(0, total_duration_mins + 1, interval_mins)) for an interval other
\* than 0: upwards below the stop for a positive step, downwards above it for a
\* negative one
Samples(total_duration_mins, interval_mins) ==
    LET stop == total_duration_mins + 1
        n == IF interval_mins > 0
             THEN (IF stop <= 0 THEN 0 ELSE (stop - 1) \div interval_mins + 1)
             ELSE (IF stop >= 0 THEN 0 ELSE (-stop - 1) \div (-interval_mins) + 1)
    IN  [k \in 1..n |-> (k - 1) * interval_mins]

\* len(df[df['duration_mins'] <= minute])
LeftBy(df, minute) ==
    Len(SelectSeq(df.rows, LAMBDA row : row[ColIdx(df, t_duration_mins)] <= minute))

\* a presence count that counts those who had left by the minute instead
StillPresentInverted(df, minute) ==
    Len(SelectSeq(df.rows, LAMBDA row : row[ColIdx(df, t_duration_mins)] <= minute))

\* len(df[df['duration_mins'] >= minute])
StillPresent(df, minute) ==
    Len(SelectSeq(df.rows, LAMBDA row : row[ColIdx(df, t_duration_mins)] >= minute))

Abs(x) == IF x < 0 THEN -x ELSE x

\* the timeline frame; percentage in tenths; drop is |diff| of the column the
\* implementation names (percentage or attendees), 0 on the first row
Timeline(df, total_duration_mins, interval_mins, drop_column) ==
    LET minutes == Samples(total_duration_mins, interval_mins)
        base == [k \in 1..Len(minutes) |->
                    [minute     |-> minutes[k],
                     attendees  |-> StillPresent(df, minutes[k]),
                     percentage |-> IF df.rows = <<>> THEN 0
                                    ELSE RoundTenths(100 * StillPresent(df, minutes[k]),
                                                     Len(df.rows))]]
    IN  [k \in 1..Len(base) |->
            base[k] @@ [drop |-> IF k = 1 THEN 0
                                 ELSE Abs(base[k][drop_column] - base[k - 1][drop_column])]]

\* df.nlargest(n, 'drop'): the n rows of largest drop, largest first, earlier
\* rows first among equals
RECURSIVE NLargest(_, _)
NLargest(rows, n) ==
    IF n = 0 \/ rows = <<>> THEN <<>>
    ELSE LET best == CHOOSE i \in 1..Len(rows) :
                         /\ \A j \in 1..Len(rows) : rows[j].drop <= rows[i].drop
                         /\ \A j \in 1..(i - 1) : rows[j].drop < rows[i].drop
         IN  << [minute |-> rows[best].minute, drop |-> rows[best].drop,
                 percentage |-> rows[best].percentage] >>
             \o NLargest(SubSeq(rows, 1, best - 1) \o SubSeq(rows, best + 1, Len(rows)), n - 1)

\* round(count / total * 100, 1) if total > 0 else 0, in tenths
Pct(count, total) == IF total > 0 THEN RoundTenths(100 * count, total) ELSE 0

\* the rows with in_waiting_room == 'yes' (wanted TRUE) or the others
WaitingRows(df, wanted) ==
    FilterRows(df, LAMBDA row :
        (Lower(AsStr(row[ColIdx(df, t_in_waiting_room)])) = <<"y", "e", "s">>) = wanted)

MA_exit_stats(df) ==
    LET total_participants == Len(df.rows)
        has_waiting_room == HasCol(df, t_in_waiting_room)
        waiting_room_count == IF has_waiting_room THEN Len(WaitingRows(df, TRUE).rows) ELSE 0
        actual_attendees == total_participants - waiting_room_count
        admitted == IF has_waiting_room /\ actual_attendees > 0
                    THEN WaitingRows(df, FALSE) ELSE df
    IN  [total_participants          |-> total_participants,
         waiting_room_count          |-> waiting_room_count,
         actual_attendees            |-> actual_attendees,
         has_waiting_room_data       |-> has_waiting_room,
         left_0_5                    |-> LeftBy(df, 5),
         left_0_5_pct                |-> Pct(LeftBy(df, 5), total_participants),
         left_0_10                   |-> LeftBy(df, 10),
         left_0_10_pct               |-> Pct(LeftBy(df, 10), total_participants),
         stayed_60_plus              |-> StillPresent(df, 60),
         stayed_60_plus_pct          |-> Pct(StillPresent(df, 60), total_participants),
         stayed_100_plus             |-> StillPresent(df, 100),
         stayed_100_plus_pct         |-> Pct(StillPresent(df, 100), total_participants),
         left_0_5_admitted           |-> LeftBy(admitted, 5),
         left_0_5_admitted_pct       |-> Pct(LeftBy(admitted, 5), actual_attendees),
         left_0_10_admitted          |-> LeftBy(admitted, 10),
         left_0_10_admitted_pct      |-> Pct(LeftBy(admitted, 10), actual_attendees),
         stayed_60_plus_admitted     |-> StillPresent(admitted, 60),
         stayed_60_plus_admitted_pct |-> Pct(StillPresent(admitted, 60), actual_attendees),
         stayed_100_plus_admitted    |-> StillPresent(admitted, 100),
         stayed_100_plus_admitted_pct |-> Pct(StillPresent(admitted, 100), actual_attendees),
         avg_duration_admitted       |-> RoundTenths(SumSeq(Column(admitted, t_duration_mins)),
                                                     Len(admitted.rows))]

DB_exit_stats(df) ==
    [total_participants |-> Len(df.rows),
     left_0_5           |-> LeftBy(df, 5),
     left_0_5_pct       |-> Pct(LeftBy(df, 5), Len(df.rows)),
     left_0_10          |-> LeftBy(df, 10),
     left_0_10_pct      |-> Pct(LeftBy(df, 10), Len(df.rows)),
     stayed_60_plus     |-> StillPresent(df, 60),
     stayed_60_plus_pct |-> Pct(StillPresent(df, 60), Len(df.rows))]

\* ret: whether a timeline frame is returned (else None); raised: an exception
\* left the method (range() with a zero step, a timeline frame without rows and
\* so without columns, a division by zero participants)
MA_analyze_exit_timeline(participants, total_duration_mins, interval_mins) ==
    IF participants.none
    THEN [ret |-> FALSE, raised |-> FALSE, timeline |-> <<>>, critical |-> <<>>]
    ELSE IF \/ interval_mins = 0
            \/ Samples(total_duration_mins, interval_mins) = <<>>
            \/ participants.rows = <<>>
         THEN [ret |-> FALSE, raised |-> TRUE, timeline |-> <<>>, critical |-> <<>>]
    ELSE LET timeline == Timeline(participants, total_duration_mins, interval_mins, "percentage")
         IN  [ret |-> TRUE, raised |-> FALSE, timeline |-> timeline,
              critical |-> NLargest(timeline, 3)]

DB_analyze_exit_timeline(participants, total_duration_mins, interval_mins) ==
    IF participants.none \/ participants.rows = <<>>
    THEN [ret |-> FALSE, raised |-> FALSE, timeline |-> <<>>, critical |-> <<>>]
    ELSE IF interval_mins = 0 \/ Samples(total_duration_mins, interval_mins) = <<>>
         THEN [ret |-> FALSE, raised |-> TRUE, timeline |-> <<>>, critical |-> <<>>]
    ELSE LET timeline == Timeline(participants, total_duration_mins, interval_mins, "attendees")
         IN  [ret |-> TRUE, raised |-> FALSE, timeline |-> timeline,
              critical |-> NLargest(timeline, 5)]

----------------------------------------------------------------------------
(* get_inactive_leads_by_rm, generate_summary_stats, export_results *)

\* the distinct values of a list, in order of first appearance
RECURSIVE Unique(_)
Unique(s) ==
    IF s = <<>> THEN <<>>
    ELSE LET rest == Unique(SubSeq(s, 1, Len(s) - 1))
         IN  IF \E k \in 1..Len(rest) : rest[k] = s[Len(s)] THEN rest
             ELSE Append(rest, s[Len(s)])

\* engagement_scores[engagement_scores['total_score'] < min_score]
Inactive(scores, min_score) == SelectSeq(scores, LAMBDA s : s.total_score < 10 * min_score)

follow_up(inactive, rm) ==
    [rm_name        |-> rm,
     inactive_count |-> Len(SelectSeq(inactive, LAMBDA s : s.rm_name = rm)),
     leads          |-> SelectSeq(inactive, LAMBDA s : s.rm_name = rm)]

\* groupby('rm_name'): one entry per owner, owners ascending, missing owners dropped
MA_get_inactive_leads_by_rm(scores, min_score) ==
    LET inactive == Inactive(scores, min_score)
        rms == SortedUnique(SelectSeq([k \in 1..Len(inactive) |-> inactive[k].rm_name],
                                      LAMBDA rm : rm # NaN))
    IN  [k \in 1..Len(rms) |-> follow_up(inactive, rms[k])]

\* list.sort(key=inactive_count, reverse=True): stable, larger counts first
RECURSIVE SortByCountDesc(_)
SortByCountDesc(entries) ==
    IF entries = <<>> THEN <<>>
    ELSE LET first == CHOOSE i \in 1..Len(entries) :
                          /\ \A j \in 1..Len(entries) :
                                 entries[j].inactive_count <= entries[i].inactive_count
                          /\ \A j \in 1..(i - 1) :
                                 entries[j].inactive_count < entries[i].inactive_count
         IN  <<entries[first]>> \o
             SortByCountDesc(SubSeq(entries, 1, first - 1)
                             \o SubSeq(entries, first + 1, Len(entries)))

DB_get_inactive_leads_by_rm(scores, min_score) ==
    LET inactive == Inactive(scores, min_score)
        rms == Unique([k \in 1..Len(inactive) |-> inactive[k].rm_name])
    IN  SortByCountDesc([k \in 1..Len(rms) |-> follow_up(inactive, rms[k])])

CountCategory(scores, category) ==
    Len(SelectSeq(scores.rows, LAMBDA s : s.category = category))

\* round(mean, 1) of whole numbers in tenths; NaN for the mean of nothing
MeanTenths(values) ==
    IF values = <<>> THEN NaN ELSE RoundTenths(SumSeq(values), Len(values))

\* a summary that counts the warm leads under the label of the hot ones
MA_generate_summary_stats_mislabelled(participants, scores, chat) ==
    [total_participants  |-> Len(participants.rows),
     avg_duration_mins   |-> MeanTenths(Column(participants, t_duration_mins)),
     hot_leads           |-> CountCategory(scores, "Hot"),
     warm_leads          |-> CountCategory(scores, "Hot"),
     cold_leads          |-> CountCategory(scores, "Cold"),
     total_chat_messages |-> Len(chat.rows),
     total_questions     |-> CountQuestions(chat.rows)]

MA_generate_summary_stats(participants, scores, chat) ==
    [total_participants  |-> Len(participants.rows),
     avg_duration_mins   |-> MeanTenths(Column(participants, t_duration_mins)),
     hot_leads           |-> CountCategory(scores, "Hot"),
     warm_leads          |-> CountCategory(scores, "Warm"),
     cold_leads          |-> CountCategory(scores, "Cold"),
     total_chat_messages |-> Len(chat.rows),
     total_questions     |-> CountQuestions(chat.rows)]

\* round(total_score.mean(), 1) in tenths: the mean of scores held to one decimal
\* is a float; where it lies halfway between two tenths either may come out
AvgScoreChoices(scores) ==
    LET sum == SumSeq([k \in 1..Len(scores.rows) |-> scores.rows[k].total_score])
        n == 10 * Len(scores.rows)
    IN  IF scores.none \/ scores.rows = <<>> THEN {0}
        ELSE IF 2 * ((10 * sum) % n) = n THEN {(10 * sum) \div n, (10 * sum) \div n + 1}
        ELSE {RoundTenths(sum, n)}

DB_generate_summary_stats(participants, scores, chat, avg_score) ==
    [total_participants  |-> Len(participants.rows),
     avg_duration_mins   |-> IF HasCol(participants, t_duration_mins)
                             THEN MeanTenths(Column(participants, t_duration_mins)) ELSE 0,
     hot_leads           |-> CountCategory(scores, "Hot"),
     warm_leads          |-> CountCategory(scores, "Warm"),
     cold_leads          |-> CountCategory(scores, "Cold"),
     avg_score           |-> avg_score,
     total_chat_messages |-> Len(chat.rows),
     total_questions     |-> CountQuestions(chat.rows)]

\* the files export_results writes
OutFile(file, rm) == [file |-> file, rm |-> rm]

export_results(scores, ins) ==
    (IF ~scores.none /\ scores.rows # <<>>
     THEN {OutFile("engagement_scores.csv", <<>>)} ELSE {})
    \cup (IF "rm_follow_ups" \in ins.keys
          THEN {OutFile("followup.csv", ReplaceChar(ins.rm_follow_ups[k].rm_name, " ", "_")) :
                    k \in 1..Len(ins.rm_follow_ups)}
          ELSE {})
    \cup (IF "summary" \in ins.keys THEN {OutFile("summary.json", <<>>)} ELSE {})
    \cup (IF "exit_timeline" \in ins.keys THEN {OutFile("exit_timeline.csv", <<>>)} ELSE {})
    \cup (IF "profile_analysis" \in ins.keys
          THEN {OutFile("profile_analysis.csv", <<>>)} ELSE {})
    \cup (IF "profile_insights" \in ins.keys
          THEN {OutFile("profile_insights.json", <<>>)} ELSE {})

----------------------------------------------------------------------------
(* analyze_by_profile, analyze_by_experience, get_profile_insights *)

\* sorted(entries, key=Key): stable, smaller keys first
RECURSIVE SortedBy(_, _)
SortedBy(Key(_), entries) ==
    IF entries = <<>> THEN <<>>
    ELSE LET first == CHOOSE i \in 1..Len(entries) :
                          /\ \A j \in 1..Len(entries) : Key(entries[i]) <= Key(entries[j])
                          /\ \A j \in 1..(i - 1) : Key(entries[i]) < Key(entries[j])
         IN  <<entries[first]>> \o
             SortedBy(Key, SubSeq(entries, 1, first - 1)
                           \o SubSeq(entries, first + 1, Len(entries)))

\* round(mean, 1) of values held to one decimal, in tenths: where the mean lies
\* halfway between two tenths the float may come out on either side, tie (0 or 1)
\* says which
MeanScore(values, tie) ==
    IF 2 * (SumSeq(values) % Len(values)) = Len(values)
    THEN SumSeq(values) \div Len(values) + tie
    ELSE RoundTenths(SumSeq(values), 10 * Len(values))

Field(group, f) == [k \in 1..Len(group) |-> group[k][f]]

CountIn(group, category) == Len(SelectSeq(group, LAMBDA s : s.category = category))

\* the sides the halfway means of a call fall on
Ties == [score : {0, 1}, attendance : {0, 1}]

\* the figures both implementations compute for a group
group_analysis(group, tie) ==
    [total_count    |-> Len(group),
     avg_score      |-> MeanScore(Field(group, "total_score"), tie.score),
     avg_duration   |-> RoundTenths(SumSeq(Field(group, "duration_mins")), Len(group)),
     hot_count      |-> CountIn(group, "Hot"),
     warm_count     |-> CountIn(group, "Warm"),
     cold_count     |-> CountIn(group, "Cold"),
     hot_percentage |-> RoundTenths(100 * CountIn(group, "Hot"), Len(group))]

MA_profile_engagement_level(avg_score) ==
    IF avg_score >= 700 THEN "High" ELSE IF avg_score >= 400 THEN "Medium" ELSE "Low"

MA_profile_group(profile, group, tie) ==
    [profile |-> profile,
     avg_attendance_score |-> MeanScore(Field(group, "attendance_score"), tie.attendance),
     avg_chat_score |-> RoundTenths(SumSeq(Field(group, "chat_score")), 10 * Len(group)),
     avg_question_score |->
         RoundTenths(SumSeq(Field(group, "question_score")), 10 * Len(group))]
    @@ group_analysis(group, tie)
    @@ [profile_engagement_level |->
            MA_profile_engagement_level(MeanScore(Field(group, "total_score"), tie.score))]

\* the scored rows with a profile that is neither missing, empty nor 'Not Specified'
MA_valid_profiles(scores) ==
    SelectSeq(scores, LAMBDA s : s.profile \notin {NaN, <<>>, t_Not_Specified})

\* groupby('profile') yields the profiles ascending; sorted(reverse=True) is stable
MA_analyze_by_profile(scores, tie) ==
    LET valid_profiles == MA_valid_profiles(scores)
        profiles == SortedUnique(Field(valid_profiles, "profile"))
    IN  SortedBy(LAMBDA a : 0 - a.avg_score,
                 [k \in 1..Len(profiles) |->
                     MA_profile_group(profiles[k],
                         SelectSeq(valid_profiles, LAMBDA s : s.profile = profiles[k]), tie)])

exp_order ==
    << <<"0", "-", "5", " ", "y", "e", "a", "r", "s">>,
       <<"6", "-", "1", "0", " ", "y", "e", "a", "r", "s">>,
       <<"1", "1", "-", "1", "5", " ", "y", "e", "a", "r", "s">>,
       <<"1", "6", "-", "2", "0", " ", "y", "e", "a", "r", "s">>,
       <<"2", "0", "+", " ", "y", "e", "a", "r", "s">>,
       t_Not_Specified >>

exp_order_index(level) ==
    IF \E i \in 1..Len(exp_order) : exp_order[i] = level
    THEN (CHOOSE i \in 1..Len(exp_order) : exp_order[i] = level) - 1
    ELSE 99

MA_experience_group(level, group, tie) ==
    [experience_level |-> level,
     stayed_60_plus |-> Len(SelectSeq(group, LAMBDA s : s.duration_mins >= 60)),
     stayed_60_plus_pct |->
         RoundTenths(100 * Len(SelectSeq(group, LAMBDA s : s.duration_mins >= 60)),
                     Len(group))]
    @@ group_analysis(group, tie)

\* the scored rows with an experience bracket that is neither missing nor empty
MA_valid_exp(scores) ==
    SelectSeq(scores, LAMBDA s : s.experience_bracket \notin {NaN, <<>>})

\* the scored list always has an experience_bracket column, so the brackets are
\* never rebuilt from the years; the groups come out in the order of exp_order
MA_analyze_by_experience(scores, tie) ==
    LET valid_exp == MA_valid_exp(scores)
        levels == SortedUnique(Field(valid_exp, "experience_bracket"))
    IN  SortedBy(LAMBDA a : exp_order_index(a.experience_level),
                 [k \in 1..Len(levels) |->
                     MA_experience_group(levels[k],
                         SelectSeq(valid_exp, LAMBDA s : s.experience_bracket = levels[k]),
                         tie)])

Recommendation(profile, type) == [profile |-> profile.profile, type |-> type]

MA_recommendation(profile) ==
    IF profile.avg_score >= 700 THEN <<Recommendation(profile, "success")>>
    ELSE IF profile.avg_score >= 400 THEN <<>>
    ELSE IF profile.avg_duration < 300 THEN <<Recommendation(profile, "content_mismatch")>>
    ELSE IF profile.avg_chat_score < 100 THEN <<Recommendation(profile, "low_interaction")>>
    ELSE <<>>

RECURSIVE FlatMap(_, _)
FlatMap(F(_), s) == IF s = <<>> THEN <<>> ELSE F(Head(s)) \o FlatMap(F, Tail(s))

MA_get_profile_insights(profile_data) ==
    [best_performing_profile  |-> profile_data[1],
     worst_performing_profile |-> profile_data[Len(profile_data)],
     most_engaged_profiles    |-> SelectSeq(profile_data, LAMBDA p : p.avg_score >= 600),
     least_engaged_profiles   |-> SelectSeq(profile_data, LAMBDA p : p.avg_score < 400),
     recommendations          |-> FlatMap(MA_recommendation, profile_data)]

DB_engagement_level(avg_score) ==
    IF avg_score >= 600 THEN "High" ELSE IF avg_score >= 400 THEN "Medium" ELSE "Low"

DB_profile_group(profile, group, tie) ==
    [profile |-> profile] @@ group_analysis(group, tie)
    @@ [engagement_level |-> DB_engagement_level(MeanScore(Field(group, "total_score"), tie.score))]

\* unique() yields the profiles in order of first appearance; list.sort is stable
DB_analyze_by_profile(scores, tie) ==
    LET valid_profiles == SelectSeq(scores, LAMBDA s : s.profile # t_Unknown)
        profiles == Unique(Field(valid_profiles, "profile"))
    IN  SortedBy(LAMBDA a : 0 - a.avg_score,
                 [k \in 1..Len(profiles) |->
                     DB_profile_group(profiles[k],
                         SelectSeq(valid_profiles, LAMBDA s : s.profile = profiles[k]), tie)])

DB_recommendation(profile) ==
    IF profile.avg_score >= 600 THEN <<Recommendation(profile, "success")>>
    ELSE IF profile.avg_score < 400 THEN <<Recommendation(profile, "warning")>>
    ELSE <<>>

DB_get_profile_insights(profile_data) ==
    [best_profile    |-> profile_data[1],
     worst_profile   |-> profile_data[Len(profile_data)],
     high_engagement |-> SelectSeq(profile_data, LAMBDA p : p.avg_score >= 600),
     low_engagement  |-> SelectSeq(profile_data, LAMBDA p : p.avg_score < 400),
     recommendations |-> FlatMap(DB_recommendation, profile_data)]

----------------------------------------------------------------------------
(* State *)

VARIABLES
    driver,               \* the program that runs: "cli", "run", "api", "dash"
    pc,                   \* the call the driver makes next; "done", "aborted", "crashed"
    zoom_file,            \* the attendance export given to the run
    chat_file,            \* the chat transcript given to the run
    crm_file,             \* the lead export given to the run
    total_duration_mins,  \* the session duration argument D
    interval_mins,        \* the sampling interval of analyze_exit_timeline
    participants_data,    \* analyzer.participants_data
    chat_data,            \* analyzer.chat_data
    crm_data,             \* analyzer.crm_data
    engagement_scores,    \* analyzer.engagement_scores
    insights,             \* analyzer.insights
    excluded_count,       \* analyzer.excluded_count
    header_row_idx,       \* the line (from 0) the last load took as header; -1: none
    output_files,         \* the files export_results wrote
    calls,                \* the analyzer methods called so far, with what they returned
    reported,             \* what the driver told the user: "none", "complete", "failed"
    zoho,                 \* the ZohoCRMAPI client and the frame of its get_all_leads
    zoom,                 \* the ZoomAPI client and the frame of its get_meeting_participants
    merged_data,          \* MasterclassDataIntegration.merged_data
    updates               \* the entries sync_attendance_to_zoho sent to bulk_update_leads

vars ==
    << driver, pc, zoom_file, chat_file, crm_file, total_duration_mins, interval_mins,
       participants_data, chat_data, crm_data, engagement_scores, insights,
       excluded_count, header_row_idx, output_files, calls, reported,
       zoho, zoom, merged_data, updates >>


\* argparse defaults of Analyze_cli.py and run.py; the number inputs of the two
\* dashboards start at 60 (dashboard.py) and 120 (dashboard_api.py), minimum 30
DefaultSession == 60
ApiSession == 120
min_score == 40
DefaultInterval == 5

inputs == << driver, zoom_file, chat_file, crm_file, total_duration_mins, interval_mins >>

\* the API clients of unified_integration.py, which the file-based drivers never
\* construct
clients == << zoho, zoom, merged_data, updates >>

NoClients ==
    /\ zoho = <<>>
    /\ zoom = <<>>
    /\ merged_data = <<>>
    /\ updates = <<>>

\* the class whose methods the driver calls: masterclass_analyzer.py or dashboard.py
Impl(d) == IF d = "dash" THEN "DB" ELSE "MA"

NotGiven == [given |-> FALSE, exists |-> FALSE, lines |-> <<>>]

\* the calls of each driver, in order
Flow(d) ==
    CASE d = "cli"  -> << "load_zoom", "load_chat", "load_crm", "match", "score",
                          "timeline", "inactive", "summary", "export", "done" >>
      [] d = "run"  -> << "load_zoom", "load_chat", "load_crm", "match", "score",
                          "timeline", "inactive", "profile", "profile_insights",
                          "summary", "export", "done" >>
      [] d = "api"  -> << "load_zoom", "load_crm", "match", "load_chat", "score",
                          "timeline", "profile", "experience", "done" >>
      [] d = "dash" -> << "load_zoom", "load_chat", "load_crm", "match", "score",
                          "timeline", "inactive", "profile", "profile_insights",
                          "summary", "done" >>

\* whether the driver makes the call at all, given the files it was handed
Called(d, stage) ==
    CASE stage = "load_chat" ->
             IF d = "run" THEN chat_file.given /\ chat_file.exists ELSE chat_file.given
      [] stage \in {"load_crm", "match"} ->
             IF d = "run" THEN crm_file.given /\ crm_file.exists ELSE crm_file.given
      [] OTHER -> TRUE

StageIdx(d, stage) == CHOOSE i \in 1..Len(Flow(d)) : Flow(d)[i] = stage

RECURSIVE NextFrom(_, _)
NextFrom(d, i) ==
    IF i >= Len(Flow(d)) THEN "done"
    ELSE IF Called(d, Flow(d)[i]) THEN Flow(d)[i]
    ELSE NextFrom(d, i + 1)

\* the call that follows stage in the driver
After(d, stage) == NextFrom(d, StageIdx(d, stage) + 1)

\* what the driver does with the return value of a loader: the CLI and run.py
\* stop on a failed attendance load, dashboard_api.py ignores it, dashboard.py
\* stops on any failed load; the CLI matches only after a successful lead load
AfterLoad(d, stage, ok) ==
    IF ok THEN After(d, stage)
    ELSE IF d = "dash" THEN "aborted"
    ELSE IF stage = "load_zoom" THEN (IF d = "api" THEN After(d, stage) ELSE "aborted")
    ELSE IF stage = "load_crm" /\ d = "cli" THEN After(d, "match")
    ELSE After(d, stage)

Call(fn, ret, raised) == [fn |-> fn, ret |-> ret, raised |-> raised]

\* the driver's step over one call: an exception ends the run, the end of the
\* flow reports completion
Return(fn, ret, raised, next) ==
    /\ calls' = Append(calls, Call(fn, ret, raised))
    /\ pc' = IF raised THEN "crashed" ELSE next
    /\ reported' = IF raised \/ next = "aborted" THEN "failed"
                   ELSE IF next = "done" THEN "complete"
                   ELSE reported

NoInsights ==
    [keys |-> {}, exit_timeline |-> <<>>, critical_dropoff_moments |-> <<>>,
     exit_stats |-> <<>>, rm_follow_ups |-> <<>>, profile_analysis |-> <<>>,
     experience_analysis |-> <<>>, profile_insights |-> <<>>, summary |-> <<>>]

\* an analyzer that holds the given attendance and chat tables and nothing else;
\* masterclass_analyzer.py starts engagement_scores as an empty list, dashboard.py
\* as None
InitTables(participants, chat) ==
    /\ participants_data = participants
    /\ chat_data = chat
    /\ crm_data = None
    /\ engagement_scores = [none |-> Impl(driver) = "DB", rows |-> <<>>]
    /\ insights = NoInsights
    /\ excluded_count = 0
    /\ header_row_idx = -1
    /\ output_files = {}
    /\ calls = <<>>
    /\ reported = "none"
    /\ NoClients

InitAnalyzer == InitTables(None, NoChat)

----------------------------------------------------------------------------
(* Actions *)

MA_LoadZoomParticipants ==
    /\ pc = "load_zoom" /\ Impl(driver) = "MA"
    /\ LET res == MA_load_zoom_participants(zoom_file)
       IN  /\ participants_data' = IF res.ok THEN res.df ELSE participants_data
           /\ excluded_count' = excluded_count + res.excluded
           /\ header_row_idx' = IF res.ok THEN 0 ELSE header_row_idx
           /\ Return("load_zoom_participants", res.ok, FALSE,
                     AfterLoad(driver, "load_zoom", res.ok))
    /\ UNCHANGED << inputs, clients, chat_data, crm_data, engagement_scores, insights, output_files >>

DB_LoadZoomParticipants ==
    /\ pc = "load_zoom" /\ Impl(driver) = "DB"
    /\ LET res == DB_load_zoom_participants(zoom_file)
       IN  /\ participants_data' = IF res.ok THEN res.df ELSE participants_data
           /\ header_row_idx' = res.header_row_idx
           /\ Return("load_zoom_participants", res.ok, FALSE,
                     AfterLoad(driver, "load_zoom", res.ok))
    /\ UNCHANGED << inputs, clients, chat_data, crm_data, engagement_scores, insights,
                    excluded_count, output_files >>

MA_LoadZoomChat ==
    /\ pc = "load_chat" /\ Impl(driver) = "MA"
    /\ LET res == MA_load_zoom_chat(chat_file)
       IN  /\ chat_data' = IF res.ok THEN res.chat ELSE chat_data
           /\ Return("load_zoom_chat", res.ok, FALSE, AfterLoad(driver, "load_chat", res.ok))
    /\ UNCHANGED << inputs, clients, participants_data, crm_data, engagement_scores, insights,
                    excluded_count, header_row_idx, output_files >>

DB_LoadZoomChat ==
    /\ pc = "load_chat" /\ Impl(driver) = "DB"
    /\ LET res == DB_load_zoom_chat(chat_file)
       IN  /\ chat_data' = IF res.ok THEN res.chat ELSE chat_data
           /\ Return("load_zoom_chat", res.ok, FALSE, AfterLoad(driver, "load_chat", res.ok))
    /\ UNCHANGED << inputs, clients, participants_data, crm_data, engagement_scores, insights,
                    excluded_count, header_row_idx, output_files >>

MA_LoadCrmData ==
    /\ pc = "load_crm" /\ Impl(driver) = "MA"
    /\ LET res == MA_load_crm_data(crm_file)
       IN  /\ crm_data' = IF res.ok THEN res.df ELSE crm_data
           /\ Return("load_crm_data", res.ok, FALSE, AfterLoad(driver, "load_crm", res.ok))
    /\ UNCHANGED << inputs, clients, participants_data, chat_data, engagement_scores, insights,
                    excluded_count, header_row_idx, output_files >>

DB_LoadCrmData ==
    /\ pc = "load_crm" /\ Impl(driver) = "DB"
    /\ LET res == DB_load_crm_data(crm_file)
       IN  /\ crm_data' = IF res.ok THEN res.df ELSE crm_data
           /\ Return("load_crm_data", res.ok, FALSE, AfterLoad(driver, "load_crm", res.ok))
    /\ UNCHANGED << inputs, clients, participants_data, chat_data, engagement_scores, insights,
                    excluded_count, header_row_idx, output_files >>

MA_MatchParticipantsWithCrm ==
    /\ pc = "match" /\ Impl(driver) = "MA"
    /\ LET res == MA_match_participants_with_crm(participants_data, crm_data)
       IN  /\ participants_data' = res.participants
           /\ crm_data' = res.crm
           /\ Return("match_participants_with_crm", res.ret, res.raised,
                     After(driver, "match"))
    /\ UNCHANGED << inputs, clients, chat_data, engagement_scores, insights, excluded_count,
                    header_row_idx, output_files >>

DB_MatchParticipantsWithCrm ==
    /\ pc = "match" /\ Impl(driver) = "DB"
    /\ LET res == DB_match_participants_with_crm(participants_data, crm_data)
       IN  /\ participants_data' = res.participants
           /\ Return("match_participants_with_crm", res.ret, FALSE, After(driver, "match"))
    /\ UNCHANGED << inputs, clients, chat_data, crm_data, engagement_scores, insights,
                    excluded_count, header_row_idx, output_files >>

MA_CalculateEngagementScores ==
    /\ pc = "score" /\ Impl(driver) = "MA"
    /\ LET res == MA_calculate_engagement_scores(participants_data, chat_data,
                                                 total_duration_mins)
       IN  /\ engagement_scores' = IF res.ret THEN [none |-> FALSE, rows |-> res.rows]
                                   ELSE engagement_scores
           /\ Return("calculate_engagement_scores", res.ret, res.raised,
                     After(driver, "score"))
    /\ UNCHANGED << inputs, clients, participants_data, chat_data, crm_data, insights,
                    excluded_count, header_row_idx, output_files >>

DB_CalculateEngagementScores ==
    /\ pc = "score" /\ Impl(driver) = "DB"
    /\ LET res == DB_calculate_engagement_scores(participants_data, chat_data,
                                                 total_duration_mins)
       IN  /\ engagement_scores' = IF res.ret THEN [none |-> FALSE, rows |-> res.rows]
                                   ELSE engagement_scores
           /\ Return("calculate_engagement_scores", res.ret, res.raised,
                     After(driver, "score"))
    /\ UNCHANGED << inputs, clients, participants_data, chat_data, crm_data, insights,
                    excluded_count, header_row_idx, output_files >>

MA_AnalyzeExitTimeline ==
    /\ pc = "timeline" /\ Impl(driver) = "MA"
    /\ LET res == MA_analyze_exit_timeline(participants_data, total_duration_mins,
                                           interval_mins)
       IN  /\ insights' =
                  IF res.ret
                  THEN [insights EXCEPT
                           !.keys = @ \cup {"exit_timeline", "critical_dropoff_moments",
                                            "exit_stats"},
                           !.exit_timeline = res.timeline,
                           !.critical_dropoff_moments = res.critical,
                           !.exit_stats = MA_exit_stats(participants_data)]
                  ELSE insights
           /\ Return("analyze_exit_timeline", res.ret, res.raised, After(driver, "timeline"))
    /\ UNCHANGED << inputs, clients, participants_data, chat_data, crm_data, engagement_scores,
                    excluded_count, header_row_idx, output_files >>

DB_AnalyzeExitTimeline ==
    /\ pc = "timeline" /\ Impl(driver) = "DB"
    /\ LET res == DB_analyze_exit_timeline(participants_data, total_duration_mins,
                                           interval_mins)
       IN  /\ insights' =
                  IF res.ret
                  THEN [insights EXCEPT
                           !.keys = @ \cup {"exit_timeline", "critical_dropoff_moments",
                                            "exit_stats"},
                           !.exit_timeline = res.timeline,
                           !.critical_dropoff_moments = res.critical,
                           !.exit_stats = DB_exit_stats(participants_data)]
                  ELSE insights
           /\ Return("analyze_exit_timeline", res.ret, res.raised, After(driver, "timeline"))
    /\ UNCHANGED << inputs, clients, participants_data, chat_data, crm_data, engagement_scores,
                    excluded_count, header_row_idx, output_files >>

\* returns None, and leaves insights alone, without scores
MA_GetInactiveLeadsByRm ==
    /\ pc = "inactive" /\ Impl(driver) = "MA"
    /\ LET scored == ~engagement_scores.none /\ engagement_scores.rows # <<>>
       IN  /\ insights' =
                  IF scored
                  THEN [insights EXCEPT
                           !.keys = @ \cup {"rm_follow_ups"},
                           !.rm_follow_ups =
                               MA_get_inactive_leads_by_rm(engagement_scores.rows, min_score)]
                  ELSE insights
           /\ Return("get_inactive_leads_by_rm", scored, FALSE, After(driver, "inactive"))
    /\ UNCHANGED << inputs, clients, participants_data, chat_data, crm_data, engagement_scores,
                    excluded_count, header_row_idx, output_files >>

\* returns [] , and leaves insights alone, without scores
DB_GetInactiveLeadsByRm ==
    /\ pc = "inactive" /\ Impl(driver) = "DB"
    /\ LET scored == ~engagement_scores.none /\ engagement_scores.rows # <<>>
       IN  /\ insights' =
                  IF scored
                  THEN [insights EXCEPT
                           !.keys = @ \cup {"rm_follow_ups"},
                           !.rm_follow_ups =
                               DB_get_inactive_leads_by_rm(engagement_scores.rows, min_score)]
                  ELSE insights
           /\ Return("get_inactive_leads_by_rm", scored, FALSE, After(driver, "inactive"))
    /\ UNCHANGED << inputs, clients, participants_data, chat_data, crm_data, engagement_scores,
                    excluded_count, header_row_idx, output_files >>

\* returns None, and leaves insights alone, without scores or without a profile
MA_AnalyzeByProfile ==
    /\ pc = "profile" /\ Impl(driver) = "MA"
    /\ LET found == /\ ~engagement_scores.none
                     /\ MA_valid_profiles(engagement_scores.rows) # <<>>
       IN  /\ \E tie \in Ties :
                  insights' =
                      IF found
                      THEN [insights EXCEPT
                               !.keys = @ \cup {"profile_analysis"},
                               !.profile_analysis =
                                   MA_analyze_by_profile(engagement_scores.rows, tie)]
                      ELSE insights
           /\ Return("analyze_by_profile", found, FALSE, After(driver, "profile"))
    /\ UNCHANGED << inputs, clients, participants_data, chat_data, crm_data, engagement_scores,
                    excluded_count, header_row_idx, output_files >>

\* returns None, and leaves insights alone, without scores or when no bracket is
\* other than 'Not Specified'
MA_AnalyzeByExperience ==
    /\ pc = "experience" /\ Impl(driver) = "MA"
    /\ LET found == /\ ~engagement_scores.none
                     /\ \E k \in 1..Len(MA_valid_exp(engagement_scores.rows)) :
                            MA_valid_exp(engagement_scores.rows)[k].experience_bracket
                                # t_Not_Specified
       IN  /\ \E tie \in Ties :
                  insights' =
                      IF found
                      THEN [insights EXCEPT
                               !.keys = @ \cup {"experience_analysis"},
                               !.experience_analysis =
                                   MA_analyze_by_experience(engagement_scores.rows, tie)]
                      ELSE insights
           /\ Return("analyze_by_experience", found, FALSE, After(driver, "experience"))
    /\ UNCHANGED << inputs, clients, participants_data, chat_data, crm_data, engagement_scores,
                    excluded_count, header_row_idx, output_files >>

MA_GetProfileInsights ==
    /\ pc = "profile_insights" /\ Impl(driver) = "MA"
    /\ LET found == "profile_analysis" \in insights.keys /\ insights.profile_analysis # <<>>
       IN  /\ insights' =
                  IF found
                  THEN [insights EXCEPT
                           !.keys = @ \cup {"profile_insights"},
                           !.profile_insights =
                               MA_get_profile_insights(insights.profile_analysis)]
                  ELSE insights
           /\ Return("get_profile_insights", found, FALSE,
                     After(driver, "profile_insights"))
    /\ UNCHANGED << inputs, clients, participants_data, chat_data, crm_data, engagement_scores,
                    excluded_count, header_row_idx, output_files >>

\* returns None, and leaves insights alone, when every profile is 'Unknown'
DB_AnalyzeByProfile ==
    /\ pc = "profile" /\ Impl(driver) = "DB"
    /\ LET found == /\ ~engagement_scores.none
                     /\ \E k \in 1..Len(engagement_scores.rows) :
                            engagement_scores.rows[k].profile # t_Unknown
       IN  /\ \E tie \in Ties :
                  insights' =
                      IF found
                      THEN [insights EXCEPT
                               !.keys = @ \cup {"profile_analysis"},
                               !.profile_analysis =
                                   DB_analyze_by_profile(engagement_scores.rows, tie)]
                      ELSE insights
           /\ Return("analyze_by_profile", found, FALSE, After(driver, "profile"))
    /\ UNCHANGED << inputs, clients, participants_data, chat_data, crm_data, engagement_scores,
                    excluded_count, header_row_idx, output_files >>

DB_GetProfileInsights ==
    /\ pc = "profile_insights" /\ Impl(driver) = "DB"
    /\ LET found == "profile_analysis" \in insights.keys /\ insights.profile_analysis # <<>>
       IN  /\ insights' =
                  IF found
                  THEN [insights EXCEPT
                           !.keys = @ \cup {"profile_insights"},
                           !.profile_insights =
                               DB_get_profile_insights(insights.profile_analysis)]
                  ELSE insights
           /\ Return("get_profile_insights", found, FALSE,
                     After(driver, "profile_insights"))
    /\ UNCHANGED << inputs, clients, participants_data, chat_data, crm_data, engagement_scores,
                    excluded_count, header_row_idx, output_files >>

MA_GenerateSummaryStats ==
    /\ pc = "summary" /\ Impl(driver) = "MA"
    /\ insights' =
           IF participants_data.none THEN insights
           ELSE [insights EXCEPT
                    !.keys = @ \cup {"summary"},
                    !.summary = MA_generate_summary_stats(participants_data,
                                                          engagement_scores, chat_data)]
    /\ Return("generate_summary_stats", ~participants_data.none, FALSE,
              After(driver, "summary"))
    /\ UNCHANGED << inputs, clients, participants_data, chat_data, crm_data, engagement_scores,
                    excluded_count, header_row_idx, output_files >>

\* dashboard.py reports a failure when the summary is None
DB_GenerateSummaryStats ==
    /\ pc = "summary" /\ Impl(driver) = "DB"
    /\ \E avg_score \in AvgScoreChoices(engagement_scores) :
           insights' =
               IF participants_data.none THEN insights
               ELSE [insights EXCEPT
                        !.keys = @ \cup {"summary"},
                        !.summary = DB_generate_summary_stats(participants_data,
                                        engagement_scores, chat_data, avg_score)]
    /\ Return("generate_summary_stats", ~participants_data.none, FALSE,
              IF participants_data.none THEN "aborted" ELSE After(driver, "summary"))
    /\ UNCHANGED << inputs, clients, participants_data, chat_data, crm_data, engagement_scores,
                    excluded_count, header_row_idx, output_files >>

MA_ExportResults ==
    /\ pc = "export" /\ Impl(driver) = "MA"
    /\ output_files' = output_files \cup export_results(engagement_scores, insights)
    /\ Return("export_results", TRUE, FALSE, After(driver, "export"))
    /\ UNCHANGED << inputs, clients, participants_data, chat_data, crm_data, engagement_scores,
                    insights, excluded_count, header_row_idx >>

----------------------------------------------------------------------------
(* The runs of the four drivers *)

MaxRows == 2
MaxBanner == 3

RunRowPool == {RowBob1, RowCara, RowTeam}

\* an upload that holds nothing
EmptyUpload == [exists |-> TRUE, lines |-> <<>>]

RunZoomFiles(d) ==
    (IF d \in {"cli", "run"} THEN {MissingFile} ELSE {})
    \cup {EmptyUpload}
    \cup {ZoomFile(0, h, rows) : h \in {HeaderNew, HeaderPlain},
                                 rows \in RowSeqs(RunRowPool, MaxRows)}

\* the dashboards take uploads (dashboard.py wants all three files); the CLI and
\* run.py take paths, which may not exist
RunChatFiles(d) ==
    CASE d \in {"cli", "run"} -> {NotGiven, GivenMissing, ChatTalk}
      [] d = "api"            -> {NotGiven, ChatTalk}
      [] d = "dash"           -> {GivenEmpty, ChatTalk}

LeadFiles ==
    {CrmFile(CrmHeaderNoEmail, <<LeadBob>>),
     CrmFile(CrmHeader, <<LeadBob, LeadCara>>),
     CrmFile(CrmHeader, <<LeadBob, LeadBobAgain>>),
     CrmFile(CrmHeaderProfile, <<LeadBobTech, LeadCaraHr>>)}

RunCrmFiles(d) ==
    CASE d \in {"cli", "run"} -> {NotGiven, GivenMissing} \cup LeadFiles
      [] d = "api"            -> {NotGiven} \cup LeadFiles
      [] d = "dash"           -> {GivenEmpty} \cup LeadFiles

\* --duration takes any integer; the dashboards take 30 or more
RunSessions(d) ==
    CASE d \in {"cli", "run"} -> {-DefaultSession, 0, DefaultSession}
      [] d = "api"            -> {ApiSession}
      [] d = "dash"           -> {DefaultSession}

Init ==
    /\ driver \in {"cli", "run", "api", "dash"}
    /\ pc = "load_zoom"
    /\ zoom_file \in RunZoomFiles(driver)
    /\ chat_file \in RunChatFiles(driver)
    /\ crm_file \in RunCrmFiles(driver)
    /\ total_duration_mins \in RunSessions(driver)
    /\ interval_mins = DefaultInterval
    /\ InitAnalyzer

Next ==
    \/ MA_LoadZoomParticipants
    \/ DB_LoadZoomParticipants
    \/ MA_LoadZoomChat
    \/ DB_LoadZoomChat
    \/ MA_LoadCrmData
    \/ DB_LoadCrmData
    \/ MA_MatchParticipantsWithCrm
    \/ DB_MatchParticipantsWithCrm
    \/ MA_CalculateEngagementScores
    \/ DB_CalculateEngagementScores
    \/ MA_AnalyzeExitTimeline
    \/ DB_AnalyzeExitTimeline
    \/ MA_GetInactiveLeadsByRm
    \/ DB_GetInactiveLeadsByRm
    \/ MA_AnalyzeByProfile
    \/ DB_AnalyzeByProfile
    \/ MA_AnalyzeByExperience
    \/ MA_GetProfileInsights
    \/ DB_GetProfileInsights
    \/ MA_GenerateSummaryStats
    \/ DB_GenerateSummaryStats
    \/ MA_ExportResults

Spec == Init /\ [][Next]_vars

----------------------------------------------------------------------------
(* The loaders alone, on every export of the input space *)

InitLoad ==
    /\ driver \in {"cli", "dash"}
    /\ pc = "load_zoom"
    /\ zoom_file \in {MissingFile} \cup
           {ZoomFile(k, h, rows) : k \in 0..MaxBanner, h \in Headers,
                                   rows \in RowSeqs(RowPool, MaxRows)}
    /\ chat_file = NotGiven
    /\ crm_file = NotGiven
    /\ total_duration_mins = DefaultSession
    /\ interval_mins = DefaultInterval
    /\ InitAnalyzer

NextLoad == MA_LoadZoomParticipants \/ DB_LoadZoomParticipants

SpecLoad == InitLoad /\ [][NextLoad]_vars

----------------------------------------------------------------------------
(* Scoring alone: one participant, every duration, session length and chat *)

MaxSession == 101
MaxDuration == 64
MaxMessages == 7

\* a loaded attendance table of one participant who stayed `duration` minutes
ScoreTable(duration) ==
    DataFrame(<<t_email, t_name, t_duration_mins>>,
              << <<<<"b", "o", "b", "@", "x", ".", "c", "o", "m">>, <<"B", "o", "b", " ", "S", "t", "o", "n", "e">>, duration>> >>)

\* a loaded chat of n messages of that participant; the odd ones are questions
ScoreChat(n) ==
    ChatFrame([k \in 1..n |->
        [sender |-> <<"B", "o", "b", " ", "S", "t", "o", "n", "e">>,
         message |-> IF k % 2 = 1 THEN <<"w", "h", "y", "?">> ELSE <<"o", "k">>,
         is_question |-> k % 2 = 1]])

InitScore ==
    /\ driver \in {"cli", "dash"}
    /\ pc = "score"
    /\ zoom_file = EmptyUpload
    /\ chat_file = NotGiven
    /\ crm_file = NotGiven
    /\ total_duration_mins \in 1..MaxSession
    /\ interval_mins = DefaultInterval
    /\ \E duration \in 0..MaxDuration, n \in 0..MaxMessages :
           InitTables(ScoreTable(duration), ScoreChat(n))

NextScore == MA_CalculateEngagementScores \/ DB_CalculateEngagementScores

SpecScore == InitScore /\ [][NextScore]_vars

----------------------------------------------------------------------------
(* The exit timeline alone: every small table, session length and interval *)

MaxAttendees == 2
MaxStay == 6
MaxTimelineSession == 8
MaxInterval == 3

\* what the Zoom report holds in its "In Waiting Room" column
WaitingFlags == {<<"Y", "e", "s">>, <<"N", "o">>}

\* a loaded attendance table with the given durations and, where flags are
\* given, the in_waiting_room column load_zoom_participants keeps
TimelineTable(durations, flags) ==
    IF flags = <<>>
    THEN DataFrame(<<t_email, t_duration_mins>>,
              [k \in 1..Len(durations) |->
                  << <<"p", <<"1", "2", "3", "4", "5", "6", "7", "8", "9">>[k]>>,
                     durations[k] >>])
    ELSE DataFrame(<<t_email, t_duration_mins, t_in_waiting_room>>,
              [k \in 1..Len(durations) |->
                  << <<"p", <<"1", "2", "3", "4", "5", "6", "7", "8", "9">>[k]>>,
                     durations[k], flags[k] >>])

InitTimeline ==
    /\ driver \in {"cli", "dash"}
    /\ pc = "timeline"
    /\ zoom_file = EmptyUpload
    /\ chat_file = NotGiven
    /\ crm_file = NotGiven
    /\ total_duration_mins \in -1..MaxTimelineSession
    /\ interval_mins \in -1..MaxInterval
    /\ \E n \in 0..MaxAttendees : \E durations \in [1..n -> 0..MaxStay] :
       \E flags \in {<<>>} \cup [1..n -> WaitingFlags] :
           InitTables(TimelineTable(durations, flags), NoChat)

NextTimeline == MA_AnalyzeExitTimeline \/ DB_AnalyzeExitTimeline

SpecTimeline == InitTimeline /\ [][NextTimeline]_vars

----------------------------------------------------------------------------
(* The views over a scored list: owners' worklists, profile and experience
   groups, for every small list of scored attendees *)

MaxScored == 3

\* how long an attendee stayed and how many chat messages they sent; for a session
\* of DefaultSession minutes these score 6.7, 20.0, 40.0, 50.0 and 60.0
ViewStays ==
    {[duration |-> 10, messages |-> 0], [duration |-> 30, messages |-> 0],
     [duration |-> 30, messages |-> 4], [duration |-> 60, messages |-> 0],
     [duration |-> 60, messages |-> 2]}

\* the lead an attendee was matched with: none (0) or one of two
ViewLeads == {0, 1, 2}

ViewOwners == << <<"R", "a", "v", "i">>, <<"A", "s", "h", "a">> >>

ViewProfiles == << <<"T", "e", "c", "h">>, <<"H", "R">> >>

ViewAttendee(k) == <<"p", <<"1", "2", "3", "4", "5", "6", "7", "8", "9">>[k]>>

\* what a cell of an attendee without a lead holds after the match: missing after
\* the merge of masterclass_analyzer.py, the default after the fillna of dashboard.py
ViewCell(d, lead, values, default) ==
    IF lead = 0 THEN (IF Impl(d) = "MA" THEN NaN ELSE default) ELSE values[lead]

\* a matched attendance table, one row per pick
ViewTable(d, picks) ==
    DataFrame(<<t_email, t_name, t_duration_mins, t_rm_name, t_profile,
                t_experience_bracket>>,
              [k \in 1..Len(picks) |->
                  << ViewAttendee(k), ViewAttendee(k), picks[k].stay.duration,
                     ViewCell(d, picks[k].lead, ViewOwners, t_Unassigned),
                     ViewCell(d, picks[k].lead, ViewProfiles, t_Unknown),
                     ViewCell(d, picks[k].lead, exp_order, t_Not_Specified) >>])

\* the chat of the picks: each attendee's messages, none of them a question
ViewChat(picks) ==
    ChatFrame(Flatten([k \in 1..Len(picks) |->
        [j \in 1..picks[k].stay.messages |->
            [sender |-> ViewAttendee(k), message |-> <<"o", "k">>,
             is_question |-> FALSE]]]))

\* the scored list calculate_engagement_scores makes of the tables
ViewScores(d, participants, chat) ==
    LET res == IF Impl(d) = "MA"
               THEN MA_calculate_engagement_scores(participants, chat, DefaultSession)
               ELSE DB_calculate_engagement_scores(participants, chat, DefaultSession)
    IN  IF res.ret THEN [none |-> FALSE, rows |-> res.rows]
        ELSE [none |-> Impl(d) = "DB", rows |-> <<>>]

\* the view calls of the drivers
ViewCalls ==
    {<<"cli", "inactive">>, <<"dash", "inactive">>, <<"run", "profile">>,
     <<"dash", "profile">>, <<"api", "experience">>}

InitViews ==
    /\ \E call \in ViewCalls : driver = call[1] /\ pc = call[2]
    /\ zoom_file = EmptyUpload
    /\ chat_file = NotGiven
    /\ crm_file = NotGiven
    /\ total_duration_mins = DefaultSession
    /\ interval_mins = DefaultInterval
    /\ \E n \in 0..MaxScored : \E picks \in [1..n -> [lead : ViewLeads, stay : ViewStays]] :
           /\ participants_data = ViewTable(driver, picks)
           /\ chat_data = ViewChat(picks)
           /\ engagement_scores =
                  ViewScores(driver, ViewTable(driver, picks), ViewChat(picks))
    /\ crm_data = None
    /\ insights = NoInsights
    /\ excluded_count = 0
    /\ header_row_idx = -1
    /\ output_files = {}
    /\ calls = <<>>
    /\ reported = "none"
    /\ NoClients

NextViews ==
    \/ MA_GetInactiveLeadsByRm
    \/ DB_GetInactiveLeadsByRm
    \/ MA_AnalyzeByProfile
    \/ DB_AnalyzeByProfile
    \/ MA_AnalyzeByExperience

SpecViews == InitViews /\ [][NextViews]_vars


----------------------------------------------------------------------------
(* The chat loader alone, over every transcript of a few blocks *)

MaxBlocks == 3

ChatSenders ==
    { <<"B", "o", "b", " ", "S", "t", "o", "n", "e">>,
      <<"A", "d", "m", "i", "n", " ", "I", "r", "o", "n", " ", "L", "a", "d", "y">>,
      <<"h", "r", "@", "i", "r", "o", "n", "l", "a", "d", "y", ".", "c", "o", "m">> }

ChatTexts == { <<"o", "k", "?">>, <<" ", " ">> }

ChatBlocks == [stamp : {"dated", "timed"}, sender : ChatSenders, message : ChatTexts]

InitChat ==
    /\ driver \in {"cli", "dash"}
    /\ pc = "load_chat"
    /\ zoom_file = EmptyUpload
    /\ \E n \in 0..MaxBlocks : \E blocks \in [1..n -> ChatBlocks] :
           chat_file = [given |-> TRUE, exists |-> TRUE, lines |-> blocks]
    /\ crm_file = NotGiven
    /\ total_duration_mins = DefaultSession
    /\ interval_mins = DefaultInterval
    /\ participants_data = None
    /\ chat_data = NoChat
    /\ crm_data = None
    /\ engagement_scores = None
    /\ insights = NoInsights
    /\ excluded_count = 0
    /\ header_row_idx = -1
    /\ output_files = {}
    /\ calls = <<>>
    /\ reported = "none"
    /\ NoClients

NextChat ==
    \/ MA_LoadZoomChat
    \/ DB_LoadZoomChat

SpecChat == InitChat /\ [][NextChat]_vars

----------------------------------------------------------------------------
(* The lead loader alone, over every experience cell *)

MaxYears == 22
MaxLeads == 2

DigitChars == <<"0", "1", "2", "3", "4", "5", "6", "7", "8", "9">>

\* the text of a whole number below 100
YearText(n) ==
    IF n < 10 THEN <<DigitChars[n + 1]>>
    ELSE <<DigitChars[(n \div 10) + 1], DigitChars[(n % 10) + 1]>>

\* what the experience column of a lead export holds: whole years, nothing, or
\* text that is no number
YearCells == {YearText(n) : n \in 0..MaxYears} \cup {<<>>, <<"n", "/", "a">>}

CrmHeaderYears ==
    << <<"E", "m", "a", "i", "l">>,
       <<"E", "x", "p", "e", "r", "i", "e", "n", "c", "e">> >>

InitBracket ==
    /\ driver \in {"cli", "api"}
    /\ pc = "load_crm"
    /\ zoom_file = EmptyUpload
    /\ chat_file = NotGiven
    /\ \E n \in 1..MaxLeads : \E cells \in [1..n -> YearCells] :
           crm_file = CrmFile(CrmHeaderYears, [k \in 1..n |-> <<ViewAttendee(k), cells[k]>>])
    /\ total_duration_mins = DefaultSession
    /\ interval_mins = DefaultInterval
    /\ participants_data = None
    /\ chat_data = NoChat
    /\ crm_data = None
    /\ engagement_scores = None
    /\ insights = NoInsights
    /\ excluded_count = 0
    /\ header_row_idx = -1
    /\ output_files = {}
    /\ calls = <<>>
    /\ reported = "none"
    /\ NoClients

NextBracket == MA_LoadCrmData

SpecBracket == InitBracket /\ [][NextBracket]_vars

----------------------------------------------------------------------------
(* zoho_crm_api.py: ZohoCRMAPI.get_all_leads against a server that holds some
   pages of leads and answers each request as it pleases *)

MaxLeadPages == 3
MaxPageLeads == 2
MaxRecords == 3

\* what the server may answer to the request of a page: 200 with the leads of the
\* page (each lead is named by its page and place) and more_records set while
\* pages remain, 204, 401, another error status, or no answer at all
LeadResponses(page) ==
    { [status |-> 200, data |-> [k \in 1..n |-> <<page, k>>], more_records |-> more] :
          n \in 0..MaxPageLeads, more \in {m \in BOOLEAN : m => page < MaxLeadPages} }
    \cup { [status |-> s, data |-> <<>>, more_records |-> FALSE] : s \in {204, 401, 500} }
    \cup { [status |-> 0, data |-> <<>>, more_records |-> FALSE] }

\* all_leads[:max_records] once max_records is reached; max_records 0 stands for None
Truncated(all_leads, max_records) ==
    IF max_records # 0 /\ Len(all_leads) >= max_records
    THEN SubSeq(all_leads, 1, max_records) ELSE all_leads

\* what get_all_leads returns is the frame of all_leads as the loop left them

\* get_all_leads up to its loop: without a token it asks for one and returns an
\* empty frame when none is granted
GetAllLeads_Begin ==
    /\ pc = "get_all_leads"
    /\ \E granted \in BOOLEAN :
           LET token == zoho.access_token \/ granted
           IN  /\ zoho' = [zoho EXCEPT !.access_token = token]
               /\ pc' = IF token THEN "request" ELSE "done"
    /\ UNCHANGED << inputs, participants_data, chat_data, crm_data, engagement_scores,
                    insights, excluded_count, header_row_idx, output_files, calls,
                    reported, zoom, merged_data, updates >>

\* one pass of the while loop up to the answer of the server: a 200 adds the
\* leads of the page, a 204 or an error status ends the loop, an exception of
\* the request breaks out of it, and a 401 drops the token and goes on to ask for
\* a new one
GetAllLeads_Request ==
    /\ pc = "request"
    /\ \E response \in LeadResponses(zoho.page) :
           LET all_leads == IF response.status = 200
                            THEN zoho.all_leads \o response.data ELSE zoho.all_leads
               reached == zoho.max_records # 0 /\ Len(all_leads) >= zoho.max_records
               more_records == IF response.status = 200
                               THEN response.more_records /\ ~reached
                               ELSE FALSE
           IN  IF response.status = 0
               THEN /\ zoho' = zoho
                    /\ pc' = "done"
               ELSE IF response.status = 401
               THEN /\ zoho' = [zoho EXCEPT !.access_token = FALSE]
                    /\ pc' = "refresh"
               ELSE /\ zoho' = [zoho EXCEPT
                                   !.all_leads = Truncated(all_leads, zoho.max_records),
                                   !.more_records = more_records,
                                   !.page = @ + 1]
                    /\ pc' = IF more_records THEN "request" ELSE "done"
    /\ UNCHANGED << inputs, participants_data, chat_data, crm_data, engagement_scores,
                    insights, excluded_count, header_row_idx, output_files, calls,
                    reported, zoom, merged_data, updates >>

\* the rest of the pass after a 401: get_access_token; with a new token the pass
\* ends with continue, before page is counted up, and the same page is requested
\* again; without one the loop ends
GetAllLeads_Refresh ==
    /\ pc = "refresh"
    /\ \E granted \in BOOLEAN :
           IF granted
           THEN /\ zoho' = [zoho EXCEPT !.access_token = TRUE]
                /\ pc' = "request"
           ELSE /\ zoho' = [zoho EXCEPT
                               !.all_leads = Truncated(@, zoho.max_records),
                               !.more_records = FALSE,
                               !.page = @ + 1]
                /\ pc' = "done"
    /\ UNCHANGED << inputs, participants_data, chat_data, crm_data, engagement_scores,
                    insights, excluded_count, header_row_idx, output_files, calls,
                    reported, zoom, merged_data, updates >>

InitLeads ==
    /\ driver = "sync"
    /\ pc = "get_all_leads"
    /\ zoom_file = NotGiven
    /\ chat_file = NotGiven
    /\ crm_file = NotGiven
    /\ total_duration_mins = DefaultSession
    /\ interval_mins = DefaultInterval
    /\ participants_data = None
    /\ chat_data = NoChat
    /\ crm_data = None
    /\ engagement_scores = None
    /\ insights = NoInsights
    /\ excluded_count = 0
    /\ header_row_idx = -1
    /\ output_files = {}
    /\ calls = <<>>
    /\ reported = "none"
    /\ \E token \in BOOLEAN, max_records \in 0..MaxRecords :
           zoho = [access_token |-> token, page |-> 1, more_records |-> TRUE,
                   all_leads |-> <<>>, max_records |-> max_records]
    /\ zoom = <<>>
    /\ merged_data = <<>>
    /\ updates = <<>>

NextLeads == GetAllLeads_Begin \/ GetAllLeads_Request \/ GetAllLeads_Refresh

SpecLeads == InitLeads /\ [][NextLeads]_vars

\* the program runs on while it has a step to take
SpecLeadsFair == SpecLeads /\ WF_vars(NextLeads)

----------------------------------------------------------------------------
(* unified_integration.py: merge_data and sync_attendance_to_zoho over every small
   attendance frame and lead frame *)

MaxSynced == 2
MaxSyncStay == 6

\* sync_attendance_to_zoho(day_number=1, min_duration_mins=5)
min_duration_mins == 5

t_id == <<"i", "d">>

\* row.get('id') of a frame without the column
NoValue == <<"None">>

\* the id Zoho gave its k-th lead
LeadId(k) == <<"L", <<"1", "2", "3", "4", "5", "6", "7", "8", "9">>[k]>>

\* the frame get_meeting_participants returned: email and duration_mins
SyncParticipants(picks) ==
    DataFrame(<<t_email, t_duration_mins>>,
              [k \in 1..Len(picks) |-> <<ViewAttendee(picks[k].attendee), picks[k].stay>>])

\* the frame of the leads pulled from Zoho, id and the standardized email; who[k]
\* is the attendee whose email lead k carries
SyncLeads(who) ==
    DataFrame(<<t_id, t_email>>, [k \in 1..Len(who) |-> <<LeadId(k), ViewAttendee(who[k])>>])

\* merge_data: None without attendance, a copy of the attendance without leads,
\* else the left merge on email
merge_data(participants, crm) ==
    IF participants.none THEN None
    ELSE IF crm.none THEN participants
    ELSE MergeLeft(participants, crm, t_email, t_crm_suffix)

\* not lead_id: None and the empty string are false, NaN is a float other than
\* zero and true
Falsy(lead_id) == lead_id \in {NoValue, <<>>}

\* the entry of one row of merged_data
attendance_update(lead_id, duration_mins, min_duration) ==
    [id |-> lead_id, attendance |-> IF duration_mins >= min_duration THEN "Yes" ELSE "No"]

\* the list of updates sync_attendance_to_zoho builds from merged_data
RECURSIVE sync_updates(_, _, _)
sync_updates(merged, r, min_duration) ==
    IF r > Len(merged.rows) THEN <<>>
    ELSE LET row == merged.rows[r]
             lead_id == RowGet(merged, row, t_id, NoValue)
         IN  (IF Falsy(lead_id) THEN <<>>
              ELSE << attendance_update(lead_id, row[ColIdx(merged, t_duration_mins)],
                                        min_duration) >>)
             \o sync_updates(merged, r + 1, min_duration)

MergeData ==
    /\ pc = "merge_data"
    /\ merged_data' = merge_data(participants_data, crm_data)
    /\ pc' = "sync"
    /\ UNCHANGED << inputs, participants_data, chat_data, crm_data, engagement_scores,
                    insights, excluded_count, header_row_idx, output_files, calls,
                    reported, zoho, zoom, updates >>

\* nothing is sent when there is no merged data or no update
SyncAttendanceToZoho ==
    /\ pc = "sync"
    /\ updates' = IF merged_data.none \/ merged_data.rows = <<>> THEN <<>>
                  ELSE sync_updates(merged_data, 1, min_duration_mins)
    /\ pc' = "done"
    /\ UNCHANGED << inputs, participants_data, chat_data, crm_data, engagement_scores,
                    insights, excluded_count, header_row_idx, output_files, calls,
                    reported, zoho, zoom, merged_data >>

InitSync ==
    /\ driver = "sync"
    /\ pc = "merge_data"
    /\ zoom_file = NotGiven
    /\ chat_file = NotGiven
    /\ crm_file = NotGiven
    /\ total_duration_mins = DefaultSession
    /\ interval_mins = DefaultInterval
    /\ \E n \in 0..MaxSynced :
       \E picks \in [1..n -> [attendee : 1..MaxSynced, stay : 0..MaxSyncStay]] :
           participants_data = SyncParticipants(picks)
    /\ chat_data = NoChat
    /\ \E m \in 0..MaxSynced : \E who \in [1..m -> 1..(MaxSynced + 1)] :
           crm_data = IF m = 0 THEN None ELSE SyncLeads(who)
    /\ engagement_scores = None
    /\ insights = NoInsights
    /\ excluded_count = 0
    /\ header_row_idx = -1
    /\ output_files = {}
    /\ calls = <<>>
    /\ reported = "none"
    /\ zoho = <<>>
    /\ zoom = <<>>
    /\ merged_data = None
    /\ updates = <<>>

NextSync == MergeData \/ SyncAttendanceToZoho

SpecSync == InitSync /\ [][NextSync]_vars

----------------------------------------------------------------------------
(* zoom_api.py: the paging loop of ZoomAPI.get_meeting_participants against a
   server that hands out the report page by page *)

MaxZoomPages == 3
MaxPageSize == 2

\* the tokens the server may name the next page with; '' when there is none
PageTokens == {"a", "b"}

\* what may come of the n-th request: an error (of the connection, of the status,
\* of the body), or a page of records, each named by its request and place, with
\* or without the token of a next page
PageResponses(n) ==
    { [ok |-> FALSE, participants |-> <<>>, next_page_token |-> ""] }
    \cup { [ok |-> TRUE, participants |-> [k \in 1..size |-> <<n, k>>],
            next_page_token |-> token] :
               size \in 0..MaxPageSize,
               token \in {""} \cup (IF n < MaxZoomPages THEN PageTokens ELSE {}) }

\* all_participants = participants
FetchedLastPage(all_participants, participants) == participants

\* all_participants.extend(participants)
Fetched(all_participants, participants) == all_participants \o participants

\* one pass of the while loop: _get_headers asks for a token when there is none,
\* the page named by next_page_token is requested (the first without a token
\* parameter), its records are added and its token kept; an error or a page
\* without a token ends the loop.  A request without an access token is refused
GetMeetingParticipants_Request ==
    /\ pc = "request"
    /\ \E granted \in BOOLEAN :
       \E response \in PageResponses(Len(zoom.sent) + 1) :
           LET token == zoom.access_token \/ granted
           IN  /\ token \/ ~response.ok
               /\ zoom' = IF response.ok
                          THEN [zoom EXCEPT
                                   !.access_token = token,
                                   !.all_participants = Fetched(@, response.participants),
                                   !.next_page_token = response.next_page_token,
                                   !.page = IF response.next_page_token = "" THEN @ ELSE @ + 1,
                                   !.sent = Append(@, zoom.next_page_token),
                                   !.received = Append(@, response)]
                          ELSE [zoom EXCEPT
                                   !.access_token = token,
                                   !.sent = Append(@, zoom.next_page_token),
                                   !.received = Append(@, response)]
               /\ pc' = IF response.ok /\ response.next_page_token # "" THEN "request"
                        ELSE "done"
    /\ UNCHANGED << inputs, participants_data, chat_data, crm_data, engagement_scores,
                    insights, excluded_count, header_row_idx, output_files, calls,
                    reported, zoho, merged_data, updates >>

InitPages ==
    /\ driver = "sync"
    /\ pc = "request"
    /\ zoom_file = NotGiven
    /\ chat_file = NotGiven
    /\ crm_file = NotGiven
    /\ total_duration_mins = DefaultSession
    /\ interval_mins = DefaultInterval
    /\ participants_data = None
    /\ chat_data = NoChat
    /\ crm_data = None
    /\ engagement_scores = None
    /\ insights = NoInsights
    /\ excluded_count = 0
    /\ header_row_idx = -1
    /\ output_files = {}
    /\ calls = <<>>
    /\ reported = "none"
    /\ zoho = <<>>
    /\ \E token \in BOOLEAN :
           zoom = [access_token |-> token, next_page_token |-> "", page |-> 1,
                   all_participants |-> <<>>, sent |-> <<>>, received |-> <<>>]
    /\ merged_data = <<>>
    /\ updates = <<>>

NextPages == GetMeetingParticipants_Request

SpecPages == InitPages /\ [][NextPages]_vars
----------------------------------------------------------------------------
(* Properties of the attendance loaders *)

\* the first call of a run is load_zoom_participants
LoadReturned == calls # <<>> /\ calls[1].fn = "load_zoom_participants"
LoadedOk == LoadReturned /\ calls[1].ret

\* the rows as the loader in use read them, before it deduplicates
ReadFrame == IF Impl(driver) = "MA" THEN MA_read(zoom_file) ELSE DB_read(zoom_file)

\* an email after trimming whitespace and lowercasing
NormEmail(cell) == IF cell = NaN THEN NaN ELSE Lower(Strip(cell))

\* the durations of the rows of df whose normalized email is e
DurationsOf(df, e) ==
    LET sel == SelectSeq(df.rows, LAMBDA row : NormEmail(row[ColIdx(df, t_email)]) = e)
    IN  [k \in 1..Len(sel) |-> sel[k][ColIdx(df, t_duration_mins)]]

\* the emails a loaded table has to hold: those of the rows read, without the
\* missing ones and, in masterclass_analyzer.py, without the team members
EmailsToKeep ==
    {NormEmail(ReadFrame.rows[r][ColIdx(ReadFrame, t_email)]) : r \in 1..Len(ReadFrame.rows)}
        \ ({NaN, <<>>, t_nan} \cup
           {e \in {NormEmail(ReadFrame.rows[r][ColIdx(ReadFrame, t_email)]) : r \in 1..Len(ReadFrame.rows)} :
               Impl(driver) = "MA" /\ is_team_member(e)})

RecordsOf(df, e) == {i \in 1..Len(df.rows) : df.rows[i][ColIdx(df, t_email)] = e}

CI_LineContains(line, word) ==
    \E k \in 1..Len(line) : Contains(Lower(line[k]), Lower(word))

CI_HeaderLines(lines) ==
    {i \in 1..Len(lines) :
        /\ CI_LineContains(lines[i], t_Email)
        /\ CI_LineContains(lines[i], t_Duration)
        /\ CI_LineContains(lines[i], t_Name)}

\* C10: the load takes as header the first line that names Email, Duration and
\* Name (case-insensitively), so after k banner lines the header index is k; when
\* no line names all three the load fails and the attendance table is unchanged
C10_HeaderDetection ==
    (pc # "load_zoom" /\ LoadReturned) =>
        IF CI_HeaderLines(zoom_file.lines) = {}
        THEN ~calls[1].ret /\ participants_data = None
        ELSE /\ calls[1].ret
             /\ header_row_idx + 1 \in CI_HeaderLines(zoom_file.lines)
             /\ \A i \in CI_HeaderLines(zoom_file.lines) : header_row_idx + 1 <= i

----------------------------------------------------------------------------
(* Properties of a run *)

\* the attendance table as load_zoom_participants stored it
LoadedTable ==
    IF Impl(driver) = "MA" THEN MA_load_zoom_participants(zoom_file).df
    ELSE DB_load_zoom_participants(zoom_file).df

\* the calls of fn made so far
CallsOf(fn) == {i \in 1..Len(calls) : calls[i].fn = fn}

Finished == pc \in {"done", "aborted", "crashed"}

\* C2: the table match produces has exactly as many rows as the attendance table
\* it was given, whatever the lead table holds (no leads, several leads with the
\* same email)
C2_MatchKeepsRowCount ==
    (\E i \in CallsOf("match_participants_with_crm") : calls[i].ret) =>
        Len(participants_data.rows) = Len(LoadedTable.rows)

\* C3: for a duration >= 0 and a session duration D > 0, whatever the number of
\* matched messages and questions, attendance_score is in [0, 40], chat_score in
\* [0, 30], question_score in [0, 20], end_score in {0, 10} and total_score in
\* [0, 100] (scores in tenths)
C3_ScoreBounds ==
    \A k \in 1..Len(engagement_scores.rows) :
        (total_duration_mins > 0 /\ engagement_scores.rows[k].duration_mins >= 0) =>
            /\ engagement_scores.rows[k].attendance_score \in 0..400
            /\ engagement_scores.rows[k].chat_score \in 0..300
            /\ engagement_scores.rows[k].question_score \in 0..200
            /\ engagement_scores.rows[k].end_score \in {0, 100}
            /\ engagement_scores.rows[k].total_score \in 0..1000

\* a participant who outstayed the session and sent more messages and questions
\* than the caps count was scored 100
C3_Witness ==
    /\ CallsOf("calculate_engagement_scores") # {}
    /\ Len(chat_data.rows) > 6
    /\ CountQuestions(chat_data.rows) > 2
    /\ \E k \in 1..Len(engagement_scores.rows) :
           /\ engagement_scores.rows[k].duration_mins > total_duration_mins
           /\ engagement_scores.rows[k].chat_score = 300
           /\ engagement_scores.rows[k].question_score = 200
           /\ engagement_scores.rows[k].total_score = 1000

\* C4: in every scored record the category is the one the stored total_score
\* gives: Hot from 70, Warm from 40 to under 70, Cold under 40 (scores in tenths)
C4_CategoryOfStoredTotal ==
    \A k \in 1..Len(engagement_scores.rows) :
        engagement_scores.rows[k].category =
            IF engagement_scores.rows[k].total_score >= 700 THEN "Hot"
            ELSE IF engagement_scores.rows[k].total_score >= 400 THEN "Warm"
            ELSE "Cold"

\* the emails held by the follow-up lists of the owners
FollowUpEmails ==
    UNION {{insights.rm_follow_ups[k].leads[j].email :
               j \in 1..Len(insights.rm_follow_ups[k].leads)} :
           k \in 1..Len(insights.rm_follow_ups)}

\* C5: no table of a run holds an excluded email (an excluded address or an
\* address of an excluded domain): not the attendance table, matched or not, not
\* the scored list, not the owners' follow-up lists
C5_ExcludedNeverScored ==
    /\ HasCol(participants_data, t_email) =>
           \A r \in 1..Len(participants_data.rows) :
               ~is_team_member(participants_data.rows[r][ColIdx(participants_data, t_email)])
    /\ \A k \in 1..Len(engagement_scores.rows) :
           ~is_team_member(engagement_scores.rows[k].email)
    /\ \A e \in FollowUpEmails : ~is_team_member(e)

\* C6: after a failed load_zoom_participants the driver makes no other call and
\* does not report the run as completed
C6_FailedLoadAborts ==
    (LoadReturned /\ ~calls[1].ret) =>
        /\ Len(calls) = 1
        /\ reported # "complete"

\* C7: a run of the CLI or of run.py, for a session duration D > 0, whose
\* attendance loaded and whose chat or lead source is absent or failed to load
\* ends after scoring and export, with every attendee scored, and without chat
\* data every chat_score and question_score is 0 and total_score =
\* attendance_score + end_score
C7_OptionalSourcesDoNotAbort ==
    (/\ driver \in {"cli", "run"} /\ Finished /\ LoadedOk
     /\ total_duration_mins > 0
     /\ chat_data.none \/ crm_data.none) =>
        /\ pc = "done"
        /\ \E i \in CallsOf("calculate_engagement_scores") : calls[i].ret
        /\ CallsOf("export_results") # {}
        /\ Len(engagement_scores.rows) = Len(participants_data.rows)
        /\ chat_data.none =>
               \A k \in 1..Len(engagement_scores.rows) :
                   /\ engagement_scores.rows[k].chat_score = 0
                   /\ engagement_scores.rows[k].question_score = 0
                   /\ engagement_scores.rows[k].total_score =
                          engagement_scores.rows[k].attendance_score
                          + engagement_scores.rows[k].end_score

\* C8: calculate_engagement_scores called with a session duration D <= 0 scores
\* no participant: the scoring loop divides nothing by D, so raises nothing, and
\* no scored record is stored
C8_NonPositiveDurationRejected ==
    (total_duration_mins <= 0 /\ CallsOf("calculate_engagement_scores") # {}) =>
        /\ \A i \in CallsOf("calculate_engagement_scores") : ~calls[i].raised
        /\ engagement_scores.rows = <<>>

\* C9: the timeline samples the minutes 0, I, 2I, ... up to D, the value at
\* minute m is the number of attendees with duration_mins >= m, and the values
\* never increase from one sample to the next
C9_TimelineNonIncreasing ==
    "exit_timeline" \in insights.keys =>
        /\ interval_mins > 0
        /\ Len(insights.exit_timeline) * interval_mins > total_duration_mins
        /\ \A k \in 1..Len(insights.exit_timeline) :
               /\ insights.exit_timeline[k].minute = (k - 1) * interval_mins
               /\ insights.exit_timeline[k].minute <= total_duration_mins
               /\ insights.exit_timeline[k].attendees =
                      Cardinality({r \in 1..Len(participants_data.rows) :
                          participants_data.rows[r][ColIdx(participants_data, t_duration_mins)]
                              >= insights.exit_timeline[k].minute})
        /\ \A k \in 1..(Len(insights.exit_timeline) - 1) :
               insights.exit_timeline[k + 1].attendees <= insights.exit_timeline[k].attendees

\* a timeline of three samples or more, over two attendees, on which the count
\* falls twice
C9_Witness ==
    /\ "exit_timeline" \in insights.keys
    /\ Len(participants_data.rows) = 2
    /\ Len(insights.exit_timeline) >= 3
    /\ \E j, k \in 1..(Len(insights.exit_timeline) - 1) :
           /\ j < k
           /\ insights.exit_timeline[j + 1].attendees < insights.exit_timeline[j].attendees
           /\ insights.exit_timeline[k + 1].attendees < insights.exit_timeline[k].attendees

----------------------------------------------------------------------------
(* Properties of the lead defaults, the lead and chat loaders and the views *)

\* the scored record has no lead: no lead table is loaded, or none of its rows
\* has the record's email once both are trimmed and lower-cased
WithoutLead(s) ==
    \/ crm_data.none
    \/ ~HasCol(crm_data, t_email)
    \/ \A r \in 1..Len(crm_data.rows) :
           Lower(Strip(AsStr(crm_data.rows[r][ColIdx(crm_data, t_email)])))
               # Lower(Strip(AsStr(s.email)))

\* C11: every scored record without a lead has owner 'Unassigned', profile
\* 'Unknown' and experience bracket 'Not Specified', and no scored record has a
\* missing (NaN) owner or profile
C11_LeadDefaults ==
    \A k \in 1..Len(engagement_scores.rows) :
        /\ WithoutLead(engagement_scores.rows[k]) =>
               /\ engagement_scores.rows[k].rm_name = t_Unassigned
               /\ engagement_scores.rows[k].profile = t_Unknown
               /\ "experience_bracket" \in DOMAIN engagement_scores.rows[k]
               /\ engagement_scores.rows[k].experience_bracket = t_Not_Specified
        /\ engagement_scores.rows[k].rm_name # NaN
        /\ engagement_scores.rows[k].profile # NaN

\* the lead export has no column whose trimmed, lower-cased name is 'email'
NoEmailColumn ==
    \/ crm_file.lines = <<>>
    \/ \A i \in 1..Len(crm_file.lines[1]) : Lower(Strip(crm_file.lines[1][i])) # t_email

\* C12: load_crm_data on an export without a column named 'email' (in any case)
\* fails: it does not return True and installs no lead table
C12_MissingEmailColumn ==
    (NoEmailColumn /\ CallsOf("load_crm_data") # {}) =>
        /\ \A i \in CallsOf("load_crm_data") : ~calls[i].ret
        /\ crm_data.none

\* the scored records under the follow-up threshold, by position
BelowThreshold ==
    {k \in 1..Len(engagement_scores.rows) :
        engagement_scores.rows[k].total_score < 10 * min_score}

\* the worklists that hold the scored record s
WorklistsOf(s) ==
    {w \in 1..Len(insights.rm_follow_ups) :
        \E j \in 1..Len(insights.rm_follow_ups[w].leads) :
            insights.rm_follow_ups[w].leads[j].email = s.email}

\* C13: the owners' worklists hold exactly the scored participants with
\* total_score < min_score: each of them is in the worklist of exactly one owner,
\* every lead of a worklist is under the threshold, and the inactive_count values
\* add up to the number of participants under the threshold
C13_WorklistsPartitionInactive ==
    "rm_follow_ups" \in insights.keys =>
        /\ \A k \in BelowThreshold :
               Cardinality(WorklistsOf(engagement_scores.rows[k])) = 1
        /\ \A w \in 1..Len(insights.rm_follow_ups) :
               \A j \in 1..Len(insights.rm_follow_ups[w].leads) :
                   insights.rm_follow_ups[w].leads[j].total_score < 10 * min_score
        /\ SumSeq([w \in 1..Len(insights.rm_follow_ups) |->
                      insights.rm_follow_ups[w].inactive_count])
               = Cardinality(BelowThreshold)

----------------------------------------------------------------------------
(* The chat transcript *)

\* the pattern matches the loader of the driver works on
MatchesOf(d, blocks) ==
    IF Impl(d) = "MA" THEN MA_matches(blocks, 1)
    ELSE IF Len(matches1(blocks)) >= Len(matches2(blocks)) THEN matches1(blocks)
    ELSE matches2(blocks)

\* the sender test of masterclass_analyzer.py line 212; dashboard.py has none
SkippedSender(d, sender) ==
    /\ Impl(d) = "MA"
    /\ \/ Contains(Lower(Strip(sender)), t_sender_admin)
       \/ EndsWith(Lower(Strip(sender)), EXCLUDED_DOMAINS[1])

\* the matches that have text after trimming, in transcript order
WithText(d, blocks) ==
    LET m == MatchesOf(d, blocks)
    IN  { i \in 1..Len(m) : Strip(m[i].message) # <<>> /\ ~SkippedSender(d, m[i].sender) }

\* the number of members of S below or at i
RankIn(S, i) == Cardinality({ j \in S : j <= i })

ChatLoaded == CallsOf("load_zoom_chat") # {} /\ ~chat_data.none

C15_NoExcludedSenderInChat ==
    ChatLoaded => \A k \in 1..Len(chat_data.rows) : ~is_team_member(chat_data.rows[k].sender)

\* the matches of a pattern that have text after trimming
NonEmpty(m) == { i \in 1..Len(m) : Strip(m[i].message) # <<>> }

\* the records the loader of the driver makes of the matches of one pattern
ChatRecordsOf(d, m) ==
    LET S == { i \in NonEmpty(m) : ~SkippedSender(d, m[i].sender) }
    IN  [r \in 1..Cardinality(S) |-> chat_record(m[CHOOSE i \in S : RankIn(S, i) = r])]

\* the matches of the dated header pattern of the driver's loader
DatedMatches(d, blocks) == IF Impl(d) = "MA" THEN MA_matches(blocks, 1) ELSE matches1(blocks)

\* C16: the chat table is made of the matches of whichever pattern, the dated
\* header or the time-only header, has more matches with text over the whole
\* transcript (of either when they have as many)
C16_BetterPatternUsed ==
    ChatLoaded =>
        LET dated == DatedMatches(driver, chat_file.lines)
            timed == matches2(chat_file.lines)
        IN  /\ Cardinality(NonEmpty(dated)) > Cardinality(NonEmpty(timed))
                   => chat_data.rows = ChatRecordsOf(driver, dated)
            /\ Cardinality(NonEmpty(dated)) < Cardinality(NonEmpty(timed))
                   => chat_data.rows = ChatRecordsOf(driver, timed)
            /\ chat_data.rows \in {ChatRecordsOf(driver, dated), ChatRecordsOf(driver, timed)}

----------------------------------------------------------------------------
(* The experience brackets *)

LeadsLoaded == CallsOf("load_crm_data") # {} /\ ~crm_data.none

\* the cell of lead r in the file, as pd.read_csv hands it on
CellOf(r) == IF crm_file.lines[r + 1][2] = <<>> THEN NaN ELSE crm_file.lines[r + 1][2]

IsYears(cell) == cell # NaN /\ \A k \in 1..Len(cell) : IsDigit(cell[k])

\* the band the bracket table gives a number of years
BandOf(years) ==
    CASE years <= 5 -> exp_order[1]
      [] years > 5 /\ years <= 10 -> exp_order[2]
      [] years > 10 /\ years <= 15 -> exp_order[3]
      [] years > 15 /\ years <= 20 -> exp_order[4]
      [] years > 20 -> exp_order[5]

\* C17: every experience cell gets a bracket: a number of years the band of
\* the table (at most 5, 10, 15, 20, above 20), a missing cell or text that is
\* no number 'Not Specified'; and the bracket function of the experience
\* aggregator gives the same bracket, on the raw cell and on the numeric cell
C17_BracketOfYears ==
    LeadsLoaded => \A r \in 1..Len(crm_data.rows) :
        LET bracket == crm_data.rows[r][ColIdx(crm_data, t_experience_bracket)]
            years   == crm_data.rows[r][ColIdx(crm_data, t_experience_years)]
        IN  /\ bracket = IF IsYears(CellOf(r)) THEN BandOf(DigitsValue(CellOf(r), 0))
                         ELSE t_Not_Specified
            /\ analyze_get_exp_bracket(CellOf(r)) = bracket
            /\ analyze_get_exp_bracket(years) = bracket

\* leads of 5 and of 6 years loaded, in two different brackets
C17_Witness ==
    /\ LeadsLoaded
    /\ Len(crm_data.rows) = 2
    /\ CellOf(1) = <<"5">> /\ CellOf(2) = <<"6">>
    /\ crm_data.rows[1][ColIdx(crm_data, t_experience_bracket)] = exp_order[1]
    /\ crm_data.rows[2][ColIdx(crm_data, t_experience_bracket)] = exp_order[2]

----------------------------------------------------------------------------
(* The sampling interval *)

\* C18: a call of analyze_exit_timeline with a sampling interval of 0 or less
\* ends in an error and writes no timeline, no drop-off list and no exit
\* statistics to the insights
C18_InvalidIntervalRejected ==
    (interval_mins <= 0 /\ CallsOf("analyze_exit_timeline") # {}) =>
        /\ \A i \in CallsOf("analyze_exit_timeline") : calls[i].raised
        /\ insights.keys \cap {"exit_timeline", "critical_dropoff_moments", "exit_stats"} = {}

----------------------------------------------------------------------------
(* The order of the groups *)

\* the groups of a list stand in descending order of their mean total score
ByMeanDescending(groups) ==
    \A k \in 1..(Len(groups) - 1) : groups[k].avg_score >= groups[k + 1].avg_score

\* C19: the groups of the profile aggregator and the groups of the experience
\* bracket aggregator are listed by descending mean total_score
C19_GroupsByMeanDescending ==
    /\ "profile_analysis" \in insights.keys => ByMeanDescending(insights.profile_analysis)
    /\ "experience_analysis" \in insights.keys => ByMeanDescending(insights.experience_analysis)

\* C20: the worklists of the owners are listed by descending inactive_count
C20_WorklistsByCountDescending ==
    "rm_follow_ups" \in insights.keys =>
        \A w \in 1..(Len(insights.rm_follow_ups) - 1) :
            insights.rm_follow_ups[w].inactive_count
                >= insights.rm_follow_ups[w + 1].inactive_count

----------------------------------------------------------------------------
(* The label of a profile group *)

\* the engagement label of a group of profile_analysis
LevelOf(group) ==
    IF "profile_engagement_level" \in DOMAIN group THEN group.profile_engagement_level
    ELSE group.engagement_level

\* C21: a profile group is labelled 'High' exactly when its avg_score is at
\* least 70, 'Medium' exactly when it is at least 40 and below 70, and 'Low'
\* exactly when it is below 40
C21_ProfileLabelCutoffs ==
    "profile_analysis" \in insights.keys =>
        \A k \in 1..Len(insights.profile_analysis) :
            LET group == insights.profile_analysis[k]
            IN  /\ LevelOf(group) = "High" <=> group.avg_score >= 700
                /\ LevelOf(group) = "Medium" <=> (group.avg_score >= 400 /\ group.avg_score < 700)
                /\ LevelOf(group) = "Low" <=> group.avg_score < 400

----------------------------------------------------------------------------
(* The messages of a participant *)

\* the first word of the lowercased name of a scored record; <<>> without one
FirstNameOf(s) ==
    IF s.name \in {NaN, <<>>} \/ SplitWs(Lower(s.name), <<>>, <<>>) = <<>> THEN <<>>
    ELSE SplitWs(Lower(s.name), <<>>, <<>>)[1]

\* the loaded messages whose lowercased sender holds the first name of the record
AttributedTo(s) ==
    IF chat_data.none \/ FirstNameOf(s) = <<>> THEN {}
    ELSE { m \in 1..Len(chat_data.rows) :
             Contains(Lower(chat_data.rows[m].sender), FirstNameOf(s)) }

\* C22: a participant is scored on exactly the chat messages whose lowercased
\* sender holds the participant's lowercased first name: chat_score counts those
\* messages (5 each, at most 30), question_score those of them that are
\* questions (10 each, at most 20), and the questions are never more than the
\* messages
C22_MessagesByFirstName ==
    \A i \in CallsOf("calculate_engagement_scores") : calls[i].ret =>
        \A k \in 1..Len(engagement_scores.rows) :
            LET s == engagement_scores.rows[k]
                message_count == Cardinality(AttributedTo(s))
                question_count ==
                    Cardinality({ m \in AttributedTo(s) : chat_data.rows[m].is_question })
            IN  /\ s.chat_score = 10 * Min(message_count * 5, 30)
                /\ s.question_score = 10 * Min(question_count * 10, 20)
                /\ question_count <= message_count
                /\ "message_count" \in DOMAIN s =>
                       s.message_count = message_count /\ s.question_count = question_count

----------------------------------------------------------------------------
(* The critical drop-off moments *)

\* the absolute difference of the percentage of sample i to the sample before it
PctDrop(i) ==
    IF i = 1 THEN 0
    ELSE Abs(insights.exit_timeline[i].percentage - insights.exit_timeline[i - 1].percentage)

\* sample j stands before sample i in the list: the larger drop first, the
\* smaller minute first among equal drops
RanksBefore(j, i) ==
    \/ PctDrop(j) > PctDrop(i)
    \/ PctDrop(j) = PctDrop(i)
           /\ insights.exit_timeline[j].minute < insights.exit_timeline[i].minute

\* the number of entries the implementation of the driver asks nlargest for
TopK == IF Impl(driver) = "MA" THEN 3 ELSE 5

\* C23: the critical drop-off list holds the K samples of the timeline with the
\* largest absolute difference in percentage to the sample before (the smaller
\* minute first among equal drops), min(K, number of samples) entries, each with
\* its minute, drop and percentage
C23_LargestPercentageDrops ==
    "critical_dropoff_moments" \in insights.keys =>
        /\ Len(insights.critical_dropoff_moments) = Min(TopK, Len(insights.exit_timeline))
        /\ \A r \in 1..Len(insights.critical_dropoff_moments) :
               \E i \in 1..Len(insights.exit_timeline) :
                   /\ Cardinality({ j \in 1..Len(insights.exit_timeline) : RanksBefore(j, i) })
                          = r - 1
                   /\ insights.critical_dropoff_moments[r] =
                          [minute     |-> insights.exit_timeline[i].minute,
                           drop       |-> PctDrop(i),
                           percentage |-> insights.exit_timeline[i].percentage]

----------------------------------------------------------------------------
(* The admitted-only retention buckets *)

\* the attendance records that carry no waiting-room flag
NotFlagged == WaitingRows(participants_data, FALSE)

\* C24: when the attendance records carry a waiting-room flag, every
\* admitted-only bucket counts the records without the flag that satisfy its
\* cutoff, so it is at most actual_attendees and at most the bucket of the whole
\* population, also when every record is flagged
C24_AdmittedBucketsCountAdmitted ==
    ("exit_stats" \in insights.keys /\ Impl(driver) = "MA"
        /\ insights.exit_stats.has_waiting_room_data) =>
        LET stats == insights.exit_stats
        IN  /\ stats.actual_attendees = Len(NotFlagged.rows)
            /\ stats.left_0_5_admitted = LeftBy(NotFlagged, 5)
            /\ stats.left_0_10_admitted = LeftBy(NotFlagged, 10)
            /\ stats.stayed_60_plus_admitted = StillPresent(NotFlagged, 60)
            /\ stats.stayed_100_plus_admitted = StillPresent(NotFlagged, 100)
            /\ \A count \in {stats.left_0_5_admitted, stats.left_0_10_admitted,
                              stats.stayed_60_plus_admitted, stats.stayed_100_plus_admitted} :
                   count <= stats.actual_attendees
            /\ stats.left_0_5_admitted <= stats.left_0_5
            /\ stats.left_0_10_admitted <= stats.left_0_10
            /\ stats.stayed_60_plus_admitted <= stats.stayed_60_plus
            /\ stats.stayed_100_plus_admitted <= stats.stayed_100_plus

----------------------------------------------------------------------------
(* The frame of match_participants_with_crm *)

\* C25: match_participants_with_crm leaves its inputs as they were: the loaded
\* attendance table and the loaded lead table have the same rows and the same
\* columns after the call as before it
C25_MatchLeavesInputsUnchanged ==
    [][pc = "match" => /\ participants_data' = participants_data
                       /\ crm_data' = crm_data]_vars

----------------------------------------------------------------------------
(* The summary of a run *)

\* C27: in every run that reaches its summary, the hot, warm and cold leads of
\* the summary add up to its total_participants
C27_CategoriesAddUpToTotal ==
    "summary" \in insights.keys =>
        insights.summary.hot_leads + insights.summary.warm_leads
            + insights.summary.cold_leads = insights.summary.total_participants

\* a run of the CLI or of run.py that matched leads, scored several attendees of
\* which some are warm, and wrote its summary
C27_Witness ==
    /\ driver \in {"cli", "run"}
    /\ "summary" \in insights.keys
    /\ \E i \in CallsOf("match_participants_with_crm") : calls[i].ret
    /\ insights.summary.total_participants > 1
    /\ insights.summary.warm_leads > 0

----------------------------------------------------------------------------
(* A run without participants *)

\* the attendance source was read and gave a table without rows
LoadedEmpty ==
    /\ \E i \in CallsOf("load_zoom_participants") : calls[i].ret
    /\ ~participants_data.none
    /\ participants_data.rows = <<>>

\* C28: a run of the CLI or of run.py whose attendance source loads but yields no
\* participant still completes: no call of the analyzer raises an error
C28_EmptyRunCompletes ==
    (driver \in {"cli", "run"} /\ LoadedEmpty) =>
        /\ pc # "crashed"
        /\ \A i \in 1..Len(calls) : ~calls[i].raised

----------------------------------------------------------------------------
(* get_all_leads comes to an end *)

\* C26: get_all_leads terminates whatever the server answers: no page is
\* requested again and again, also when every answer is 401 and every token
\* refresh succeeds
C26_GetAllLeadsTerminates == <>(pc = "done")

----------------------------------------------------------------------------
(* The updates sent to Zoho *)

\* the rows of merged_data the left merge matched to a lead: the id is there
HasLead(r) ==
    /\ HasCol(merged_data, t_id)
    /\ merged_data.rows[r][ColIdx(merged_data, t_id)] \notin {NaN, NoValue, <<>>}

\* C29: sync_attendance_to_zoho sends one entry for each merged row that was
\* matched to a lead and none for a row the left merge left without an id; an
\* entry says 'Yes' exactly when duration_mins >= min_duration_mins
C29_UpdatesOnlyForMatchedLeads ==
    pc = "done" =>
        LET matched == SelectSeq([r \in 1..Len(merged_data.rows) |-> r], HasLead)
        IN  /\ Len(updates) = Len(matched)
            /\ \A k \in 1..Len(updates) :
                   LET row == merged_data.rows[matched[k]]
                   IN  /\ updates[k].id = row[ColIdx(merged_data, t_id)]
                       /\ updates[k].attendance = "Yes"
                              <=> row[ColIdx(merged_data, t_duration_mins)] >= min_duration_mins

----------------------------------------------------------------------------
(* The pages of the participants report *)

\* the records of the pages received so far, page after page
ReceivedRecords == Flatten([k \in 1..Len(zoom.received) |-> zoom.received[k].participants])

\* the k-th answer ended the loop: an error, or a page without a token
Stops(k) == ~zoom.received[k].ok \/ zoom.received[k].next_page_token = ""

====
